---- MODULE Spec2Model ----
(***************************************************************************)
(* A model of the chainsights client (crates/chainsights_client):          *)
(*   - attestation.rs : verify_signature_with_pae, construct_pae,          *)
(*                      inspect_certificate_identity_from_der              *)
(*   - fetch.rs       : fetch_manifest_text                                *)
(*   - models/chainsights.rs : parse_predicate                             *)
(*   - traversal.rs   : traverse_and_aggregate, process_attestation_uri    *)
(*                                                                         *)
(* Text and byte strings are sequences of string tokens.  Option<T> is a   *)
(* sequence of length 0 (None) or 1 (Some).  anyhow::Result is a record    *)
(* [ok, val, chain]; chain is the context chain of an error, outermost     *)
(* first, and Display (to_string) prints chain[1] only.                    *)
(***************************************************************************)
EXTENDS Integers, Sequences, FiniteSets

VARIABLES
    root_uri,          \* traverse_and_aggregate argument
    root_identity,     \* traverse_and_aggregate argument
    max_depth,         \* the depth limit the guards compare against
    visited_uris,      \* HashSet<String> of traverse_and_aggregate
    aggregated_data,   \* AggregatedCatalogData being built
    agg_comp_data,     \* Option<AggregatedComponentData> of the component in progress
    ci,                \* index of the catalog component being processed (1-based)
    ri,                \* index of the release attestation being processed (1-based)
    call,              \* Option<[uri, expected_identity, depth]>: the process_attestation_uri call in flight
    pc,                \* control position of traverse_and_aggregate
    requests,          \* the HTTP GETs issued so far, in order (observed on the wire)
    returned,          \* Option<Result>: what traverse_and_aggregate returned
    last_result,       \* Option<[uri, depth, ok, kind, expected, names]>: the result the
                       \* last match of a process_attestation_uri call was taken on,
                       \* the identity the call was given and, when Ok, the SAN
                       \* entries of the certificate of the manifest it verified
    vin,               \* input of a stand-alone verify_signature_with_pae call
    vout               \* Option<Result> of that call

vars == <<root_uri, root_identity, max_depth, visited_uris, aggregated_data,
          agg_comp_data, ci, ri, call, pc, requests, returned, last_result,
          vin, vout>>

(***************************************************************************)
(* Bounds of the model.                                                    *)
(***************************************************************************)
MaxComponents == 2     \* longest catalog.components the servers return
MaxPaeLen == 11        \* longest payload type and payload given to construct_pae
MaxNames == 2          \* most entries in a certificate's subjectAltName
MaxReleases == 2       \* longest component.release_attestations the servers return

(***************************************************************************)
(* Program constants.                                                      *)
(***************************************************************************)
MAX_DEPTH == 10

None == <<>>
Some(x) == <<x>>

(***************************************************************************)
(* anyhow::Result                                                          *)
(***************************************************************************)
Ok(v) == [ok |-> TRUE, val |-> Some(v), chain |-> <<>>]
Err(msg) == [ok |-> FALSE, val |-> None, chain |-> <<msg>>]
Unwrap(r) == r.val[1]
\* .context(msg) / .with_context(|| msg): wraps an error, leaves Ok alone
WithContext(r, msg) == IF r.ok THEN r ELSE [r EXCEPT !.chain = <<msg>> \o @]
\* e.to_string(): anyhow's Display shows the outermost context only
to_string(r) == r.chain[1]

(***************************************************************************)
(* Formatting of integers ({} of a usize / u32).                           *)
(***************************************************************************)
Digit(d) == <<"0", "1", "2", "3", "4", "5", "6", "7", "8", "9">>[d + 1]

RECURSIVE Decimal(_)
Decimal(n) == IF n < 10 THEN <<Digit(n)>>
              ELSE Decimal(n \div 10) \o <<Digit(n % 10)>>

(***************************************************************************)
(* base64 (STANDARD engine).  Encoded text is the tag "b64" followed by    *)
(* the bytes; any other text does not decode.                              *)
(***************************************************************************)
B64Encode(bytes) == [b64 |-> TRUE, data |-> bytes]
B64Decode(text) == IF text.b64 THEN Ok(text.data) ELSE Err(<<"base64 decode error">>)

(***************************************************************************)
(* attestation.rs: construct_pae                                           *)
(***************************************************************************)
PaeBadSeparator(payload_type, payload) ==
    <<"D", "S", "S", "E", "v", "1", " ">> \o Decimal(Len(payload_type)) \o <<" ">>
        \o payload_type \o <<" ">> \o Decimal(Len(payload)) \o payload

construct_pae(payload_type, payload) ==
    LET header == <<"D", "S", "S", "E", "v", "1", " ">> \o Decimal(Len(payload_type))
                    \o <<" ">> \o payload_type \o <<" ">> \o Decimal(Len(payload))
                    \o <<" ">>
    IN  header \o payload

(***************************************************************************)
(* str::eq_ignore_ascii_case.  Identities are atomic strings; the table    *)
(* is u8::to_ascii_lowercase applied to every byte of the strings the      *)
(* model uses.                                                             *)
(***************************************************************************)
to_ascii_lowercase(s) == CASE s = "ALICE@x" -> "alice@x"
                           [] s = "3A7F" -> "3a7f"
                           [] s = "3a7F" -> "3a7f"
                           [] s = "9C0E" -> "9c0e"
                           [] s = "SHA256:3A7F" -> "sha256:3a7f"
                           [] s = "Alice@X" -> "alice@x"
                           [] s = "alice@Example.COM" -> "alice@example.com"
                           [] s = "ALICE@example.com" -> "alice@example.com"
                           [] s = "BOB@x" -> "bob@x"
                           [] OTHER -> s

eq_exact(a, b) == a = b

eq_ignore_ascii_case(a, b) == to_ascii_lowercase(a) = to_ascii_lowercase(b)

(***************************************************************************)
(* attestation.rs: inspect_certificate_identity_from_der                   *)
(* A DER certificate is [x509_ok, public_key, san]; san is None (no SAN    *)
(* extension) or Some([san_ok, general_names]); a general name is          *)
(* [type, value].                                                          *)
(***************************************************************************)
RECURSIVE SanLoop(_, _, _)
\* the for loop of lines 94-103: TRUE iff identity_found_in_san is set
SanLoop(general_names, expected_identity, i) ==
    IF i > Len(general_names) THEN FALSE
    ELSE IF /\ general_names[i].type = "RFC822Name"
            /\ eq_ignore_ascii_case(general_names[i].value, expected_identity)
         THEN TRUE
         ELSE SanLoop(general_names, expected_identity, i + 1)

InspectAnySanType(cert_der_bytes, expected_identity) ==
    IF ~cert_der_bytes.x509_ok
    THEN Err(<<"Failed to parse X.509 certificate from DER: ">>)
    ELSE IF /\ cert_der_bytes.san # None
            /\ cert_der_bytes.san[1].san_ok
            /\ \E i \in 1..Len(cert_der_bytes.san[1].general_names) :
                 eq_ignore_ascii_case(cert_der_bytes.san[1].general_names[i].value,
                                      expected_identity)
         THEN Ok(<<>>)
         ELSE Err(<<"Expected identity '", expected_identity,
                      "' not found in certificate SAN">>)

\* as if an absent or unparseable SAN extension were a parse failure
InspectSanRequired(cert_der_bytes, expected_identity) ==
    IF \/ ~cert_der_bytes.x509_ok
       \/ cert_der_bytes.san = None
       \/ ~cert_der_bytes.san[1].san_ok
    THEN Err(<<"Failed to parse X.509 certificate from DER: ">>)
    ELSE IF SanLoop(cert_der_bytes.san[1].general_names, expected_identity, 1)
         THEN Ok(<<>>)
         ELSE Err(<<"Expected identity '", expected_identity,
                      "' not found in certificate SAN">>)

inspect_certificate_identity_from_der(cert_der_bytes, expected_identity) ==
    IF ~cert_der_bytes.x509_ok
    THEN Err(<<"Failed to parse X.509 certificate from DER: ">>)
    ELSE LET identity_found_in_san ==
                 IF cert_der_bytes.san # None /\ cert_der_bytes.san[1].san_ok
                 THEN SanLoop(cert_der_bytes.san[1].general_names, expected_identity, 1)
                 ELSE FALSE
         IN  IF identity_found_in_san
             THEN Ok(<<>>)
             ELSE Err(<<"Expected identity '", expected_identity,
                          "' not found in certificate SAN">>)

(***************************************************************************)
(* sigstore Client::verify_blob(cert_pem, sig_base64, blob), as called at  *)
(* attestation.rs:54.  A signature made with key k over message m is the   *)
(* byte string [key |-> k, msg |-> m]; it verifies under a certificate     *)
(* iff the certificate parses, the signature text decodes, the key is the  *)
(* certificate's and the message is the blob.                              *)
(***************************************************************************)
PemEncode(cert_der_bytes) == [pem |-> TRUE, body |-> B64Encode(cert_der_bytes)]

\* as if the signature were not compared with the blob
VerifyBlobKeyOnly(cert_pem_string, sig_base64, blob) ==
    LET der == B64Decode(cert_pem_string.body)
        sig == B64Decode(sig_base64)
    IN  IF ~der.ok \/ ~Unwrap(der).x509_ok THEN Err(<<"certificate error">>)
        ELSE IF ~sig.ok THEN Err(<<"signature decode error">>)
        ELSE IF Unwrap(sig).key = Unwrap(der).public_key
             THEN Ok(<<>>)
             ELSE Err(<<"signature verification error">>)

verify_blob(cert_pem_string, sig_base64, blob) ==
    LET der == B64Decode(cert_pem_string.body)
        sig == B64Decode(sig_base64)
    IN  IF ~der.ok \/ ~Unwrap(der).x509_ok THEN Err(<<"certificate error">>)
        ELSE IF ~sig.ok THEN Err(<<"signature decode error">>)
        ELSE IF /\ Unwrap(sig).key = Unwrap(der).public_key
                /\ Unwrap(sig).msg = blob
             THEN Ok(<<>>)
             ELSE Err(<<"signature verification error">>)

(***************************************************************************)
(* attestation.rs: verify_signature_with_pae                               *)
(* The bundle JSON text is [json_ok, raw_bytes, payload, payload_type,     *)
(* signatures]; json_ok = FALSE is a text serde_json cannot deserialize    *)
(* into SigstoreBundleData.                                                *)
(***************************************************************************)
VerifyStep7(payload_bytes, cert_der_bytes, expected_identity) ==
    LET identity == WithContext(
            inspect_certificate_identity_from_der(cert_der_bytes, expected_identity),
            <<"Certificate identity verification failed">>)
    IN  IF ~identity.ok THEN identity ELSE Ok(payload_bytes)

VerifyStep5(bundle, sig_base64, payload_bytes, expected_identity) ==
    LET pae_data == construct_pae(bundle.payload_type, payload_bytes)
        cert == WithContext(B64Decode(bundle.raw_bytes),
                            <<"Failed to decode certificate rawBytes">>)
    IN  IF ~cert.ok THEN cert
        ELSE LET cert_der_bytes == Unwrap(cert)
                 cert_pem_string == PemEncode(cert_der_bytes)
                 verified == WithContext(
                     verify_blob(cert_pem_string, sig_base64, pae_data),
                     <<"Signature verification failed using verify_blob with PAE data">>)
             IN  IF ~verified.ok THEN verified
                 ELSE VerifyStep7(payload_bytes, cert_der_bytes, expected_identity)

VerifySkipIdentity(bundle_json_text, expected_identity) ==
    IF ~bundle_json_text.json_ok
    THEN WithContext(Err(<<"serde_json error">>), <<"Failed to parse bundle JSON">>)
    ELSE IF Len(bundle_json_text.signatures) = 0
    THEN Err(<<"Bundle contains no signatures in dsseEnvelope">>)
    ELSE LET payload == WithContext(B64Decode(bundle_json_text.payload),
                                    <<"Failed to decode dsseEnvelope.payload">>)
             cert == WithContext(B64Decode(bundle_json_text.raw_bytes),
                                 <<"Failed to decode certificate rawBytes">>)
         IN  IF ~payload.ok THEN payload
             ELSE IF ~cert.ok THEN cert
             ELSE LET verified == WithContext(
                          verify_blob(PemEncode(Unwrap(cert)),
                                      bundle_json_text.signatures[1],
                                      construct_pae(bundle_json_text.payload_type,
                                                    Unwrap(payload))),
                          <<"Signature verification failed using verify_blob with PAE data">>)
                  IN  IF ~verified.ok THEN verified ELSE Ok(Unwrap(payload))

verify_signature_with_pae(bundle_json_text, expected_identity) ==
    IF ~bundle_json_text.json_ok
    THEN WithContext(Err(<<"serde_json error">>), <<"Failed to parse bundle JSON">>)
    ELSE IF Len(bundle_json_text.signatures) = 0
    THEN Err(<<"Bundle contains no signatures in dsseEnvelope">>)
    ELSE LET sig_base64 == bundle_json_text.signatures[1]
             payload == WithContext(B64Decode(bundle_json_text.payload),
                                    <<"Failed to decode dsseEnvelope.payload">>)
         IN  IF ~payload.ok THEN payload
             ELSE VerifyStep5(bundle_json_text, sig_base64, Unwrap(payload),
                              expected_identity)

(***************************************************************************)
(* fetch.rs: fetch_manifest_text                                           *)
(* An HTTP exchange is [net_ok, status, lines]: net_ok = FALSE is a        *)
(* transport error, lines is the body split by str::lines.  A line is      *)
(* [lead, text, trail]: lead and trail count its leading and trailing      *)
(* whitespace, text is None or Some(bundle JSON text).                     *)
(***************************************************************************)
EmptyLine == [lead |-> 0, text |-> None, trail |-> 0]
trim(l) == [lead |-> 0, text |-> l.text, trail |-> 0]
is_empty(l) == l.lead = 0 /\ l.text = None /\ l.trail = 0

RECURSIVE find_non_blank(_, _)
\* .lines().find(|l| !l.trim().is_empty()): Option<line>
find_non_blank(lines, i) ==
    IF i > Len(lines) THEN None
    ELSE IF ~is_empty(trim(lines[i])) THEN Some(lines[i])
    ELSE find_non_blank(lines, i + 1)

error_for_status(status) == status >= 400 /\ status <= 599

fetch_manifest_text(response) ==
    IF ~response.net_ok THEN Err(<<"error sending request">>)
    ELSE IF error_for_status(response.status) THEN Err(<<"HTTP status error">>)
    ELSE LET found == find_non_blank(response.lines, 1)
             first_line == trim(IF found = None THEN EmptyLine ELSE found[1])
         IN  IF is_empty(first_line)
             THEN Err(<<"Fetched manifest is empty">>)
             ELSE Ok(first_line)

(***************************************************************************)
(* fetch.rs: fetch_and_verify_artifact                                     *)
(* An artifact exchange is [send_ok, status, bytes_ok, body]: send_ok =    *)
(* FALSE is a transport error, bytes_ok = FALSE a failure while reading    *)
(* the body.  A body is one token.  SHA-256 is a collision-free table from *)
(* bodies to digests, a digest being the first two bytes of the real one   *)
(* for the empty body and two arbitrary bytes for the others; hex::encode  *)
(* prints a digest in lowercase.  A link is [uri, digest], digest being    *)
(* None or Some(map from algorithm names to strings).                      *)
(***************************************************************************)
is_success(status) == status >= 200 /\ status <= 299

\* Display of StatusCode for the statuses the model uses
StatusDisplay(status) == CASE status = 304 -> "304 Not Modified"
                           [] status = 404 -> "404 Not Found"
                           [] status = 500 -> "500 Internal Server Error"
                           [] OTHER -> "other status"

Sha256(bytes) == CASE bytes = "" -> <<227, 176>>
                   [] bytes = "body0" -> <<58, 127>>
                   [] bytes = "body1" -> <<156, 14>>

hex_encode(digest) == CASE digest = <<227, 176>> -> "e3b0"
                        [] digest = <<58, 127>> -> "3a7f"
                        [] digest = <<156, 14>> -> "9c0e"

\* digest.get("sha256")
DigestGet(digest, key) ==
    IF key \in DOMAIN digest THEN Some(digest[key]) ELSE None

\* as if line 94 were left out
FetchArtifactNoCompare(link, response) ==
    IF ~response.send_ok
    THEN Err(<<"Failed to send request to artifact URI '", link.uri, "'">>)
    ELSE IF ~is_success(response.status)
    THEN Err(<<"Failed to fetch artifact from URI '", link.uri, "': HTTP Status ",
               StatusDisplay(response.status)>>)
    ELSE IF ~response.bytes_ok
    THEN Err(<<"Failed to read artifact bytes from URI '", link.uri, "'">>)
    ELSE LET bytes == response.body
             expected == IF link.digest = None THEN None
                         ELSE DigestGet(link.digest[1], "sha256")
         IN  IF expected # None /\ expected[1] = ""
             THEN Err(<<"Empty expected sha256 digest provided for URI '",
                        link.uri, "'">>)
             ELSE Ok(bytes)

fetch_and_verify_artifact(link, response) ==
    IF ~response.send_ok
    THEN Err(<<"Failed to send request to artifact URI '", link.uri, "'">>)
    ELSE IF ~is_success(response.status)
    THEN Err(<<"Failed to fetch artifact from URI '", link.uri, "': HTTP Status ",
               StatusDisplay(response.status)>>)
    ELSE IF ~response.bytes_ok
    THEN Err(<<"Failed to read artifact bytes from URI '", link.uri, "'">>)
    ELSE LET bytes == response.body
             expected == IF link.digest = None THEN None
                         ELSE DigestGet(link.digest[1], "sha256")
         IN  IF expected # None
             THEN LET expected_sha256_hex == expected[1]
                      calculated_sha256_hex == hex_encode(Sha256(bytes))
                  IN  IF expected_sha256_hex = ""
                      THEN Err(<<"Empty expected sha256 digest provided for URI '",
                                 link.uri, "'">>)
                      ELSE IF ~eq_ignore_ascii_case(calculated_sha256_hex,
                                                    expected_sha256_hex)
                      THEN Err(<<"Digest mismatch for URI '", link.uri,
                                 "'. Expected sha256: ", expected_sha256_hex,
                                 ", Calculated: ", calculated_sha256_hex>>)
                      ELSE Ok(bytes)
             ELSE Ok(bytes)

(***************************************************************************)
(* models/statement.rs: serde_json::from_slice::<InTotoStatement>          *)
(* Statement bytes are <<"stmt", predicateType>> followed by the tokens    *)
(* of the predicate value; anything else does not deserialize.             *)
(***************************************************************************)
StatementBytes(predicate_type, predicate) == <<"stmt", predicate_type>> \o predicate

InTotoStatement_from_slice(bytes) ==
    IF Len(bytes) >= 2 /\ bytes[1] = "stmt"
    THEN Ok([predicate_type |-> bytes[2], predicate |-> SubSeq(bytes, 3, Len(bytes))])
    ELSE Err(<<"serde_json error">>)

(***************************************************************************)
(* models/chainsights.rs: parse_predicate                                  *)
(* A Catalog value is the tokens uri, expectedSignerIdentity of each       *)
(* component's componentAttestationLink; a Component value the same for    *)
(* releaseAttestations; a Release value is empty (no metadataLinks) or     *)
(* "metadataLinks" followed by the artifact URIs.  A value starting with   *)
(* "!" lacks a required field (timestamp), and so does a link list of odd  *)
(* length (a link without expectedSignerIdentity).  A Catalog or Component *)
(* value may go on with its optional fields: "subCatalogs" or              *)
(* "subComponents" and "metadataLinks", each followed by the URIs of its   *)
(* links.                                                                  *)
(***************************************************************************)
CATALOG_V1 == "https://chainsights.rest/catalog/v1"
COMPONENT_V1 == "https://chainsights.rest/component/v1"
RELEASE_V1 == "https://chainsights.rest/release/v1"

RECURSIVE LinksOf(_)
LinksOf(tokens) ==
    IF Len(tokens) < 2 THEN <<>>
    ELSE <<[uri |-> tokens[1], expected_signer_identity |-> tokens[2]]>>
         \o LinksOf(SubSeq(tokens, 3, Len(tokens)))

RECURSIVE TokensOf(_)
TokensOf(links) ==
    IF links = <<>> THEN <<>>
    ELSE <<links[1].uri, links[1].expected_signer_identity>> \o TokensOf(Tail(links))

OptionalFields == {"subCatalogs", "subComponents", "metadataLinks", "artifacts"}

\* where the optional fields of a value begin
RECURSIVE RequiredEnd(_, _)
RequiredEnd(value, i) ==
    IF i > Len(value) \/ value[i] \in OptionalFields THEN i - 1
    ELSE RequiredEnd(value, i + 1)

\* components / releaseAttestations
LinkTokens(value) == SubSeq(value, 1, RequiredEnd(value, 1))
\* sub_catalogs / sub_components and metadata_links
OptionalTokens(value) == SubSeq(value, RequiredEnd(value, 1) + 1, Len(value))

LinkListOk(value) == (value = <<>> \/ value[1] # "!") /\ Len(LinkTokens(value)) % 2 = 0
ReleaseOk(value) == value = <<>> \/ value[1] = "metadataLinks"

Predicate(kind, links, metadata_links, predicate_type, predicate_value) ==
    [kind |-> kind, links |-> links, metadata_links |-> metadata_links,
     predicate_type |-> predicate_type, predicate_value |-> predicate_value,
     sub_links |-> <<>>]

\* as if the links of sub_catalogs, sub_components and metadata_links were
\* part of components and releaseAttestations
ParsePredicateFlat(statement) ==
    LET value == statement.predicate
        flat == LinksOf(LinkTokens(value))
                \o [k \in DOMAIN SelectSeq(OptionalTokens(value),
                                           LAMBDA t : t \notin OptionalFields) |->
                       [uri |-> SelectSeq(OptionalTokens(value),
                                          LAMBDA t : t \notin OptionalFields)[k],
                        expected_signer_identity |-> "alice@x"]]
    IN  CASE statement.predicate_type = CATALOG_V1 ->
               IF LinkListOk(value)
               THEN Ok(Predicate("Catalog", flat, None, "", <<>>))
               ELSE Err(<<"Failed to parse predicate as ", CATALOG_V1>>)
          [] statement.predicate_type = COMPONENT_V1 ->
               IF LinkListOk(value)
               THEN Ok(Predicate("Component", flat, None, "", <<>>))
               ELSE Err(<<"Failed to parse predicate as ", COMPONENT_V1>>)
          [] statement.predicate_type = RELEASE_V1 ->
               IF ReleaseOk(value)
               THEN Ok(Predicate("Release", <<>>,
                                 IF value = <<>> THEN None ELSE Some(Tail(value)),
                                 "", <<>>))
               ELSE Err(<<"Failed to parse predicate as ", RELEASE_V1>>)
          [] OTHER ->
               Ok(Predicate("Unknown", <<>>, None, statement.predicate_type, value))

ParsePredicateLenient(statement) ==
    CASE statement.predicate_type = CATALOG_V1 ->
           Ok(Predicate("Catalog", LinksOf(statement.predicate), None, "", <<>>))
      [] statement.predicate_type = COMPONENT_V1 ->
           Ok(Predicate("Component", LinksOf(statement.predicate), None, "", <<>>))
      [] statement.predicate_type = RELEASE_V1 ->
           Ok(Predicate("Release", <<>>, None, "", <<>>))
      [] OTHER ->
           Ok(Predicate("Unknown", <<>>, None, statement.predicate_type,
                        statement.predicate))

parse_predicate(statement) ==
    CASE statement.predicate_type = CATALOG_V1 ->
           IF LinkListOk(statement.predicate)
           THEN Ok([Predicate("Catalog", LinksOf(LinkTokens(statement.predicate)),
                              None, "", <<>>)
                       EXCEPT !.sub_links = OptionalTokens(statement.predicate)])
           ELSE WithContext(Err(<<"serde_json error">>),
                            <<"Failed to parse predicate as ", CATALOG_V1>>)
      [] statement.predicate_type = COMPONENT_V1 ->
           IF LinkListOk(statement.predicate)
           THEN Ok([Predicate("Component", LinksOf(LinkTokens(statement.predicate)),
                                None, "", <<>>)
                       EXCEPT !.sub_links = OptionalTokens(statement.predicate)])
           ELSE WithContext(Err(<<"serde_json error">>),
                            <<"Failed to parse predicate as ", COMPONENT_V1>>)
      [] statement.predicate_type = RELEASE_V1 ->
           IF ReleaseOk(statement.predicate)
           THEN Ok(Predicate("Release", <<>>,
                             IF statement.predicate = <<>> THEN None
                             ELSE Some(Tail(statement.predicate)), "", <<>>))
           ELSE WithContext(Err(<<"serde_json error">>),
                            <<"Failed to parse predicate as ", RELEASE_V1>>)
      [] OTHER ->
           Ok(Predicate("Unknown", <<>>, None, statement.predicate_type,
                        statement.predicate))

\* {:?} of a ChainsightsPredicate (derived): the variant's name, then its
\* fields
Debug(predicate) ==
    CASE predicate.kind = "Unknown" ->
           <<"Unknown", "{", predicate.predicate_type>>
             \o predicate.predicate_value \o <<"}">>
      [] predicate.kind = "Release" ->
           <<"Release", "(">>
             \o (IF predicate.metadata_links = None THEN <<"None">>
                 ELSE <<"Some">> \o predicate.metadata_links[1])
             \o <<")">>
      [] OTHER ->
           <<predicate.kind, "(">> \o TokensOf(predicate.links)
             \o predicate.sub_links \o <<")">>

(***************************************************************************)
(* traversal.rs: process_attestation_uri, lines 192-215: what the call     *)
(* does with the HTTP exchange of its GET.                                 *)
(***************************************************************************)
ParseVerified(uri, statement_payload) ==
    LET statement == WithContext(InTotoStatement_from_slice(statement_payload),
            <<"Failed to parse InTotoStatement JSON from URI '", uri, "'">>)
    IN  IF ~statement.ok THEN statement
        ELSE WithContext(parse_predicate(Unwrap(statement)),
            <<"Failed to parse ChainsightsPredicate from statement at URI '", uri, "'">>)

ProcessFetched(uri, expected_identity, response) ==
    LET manifest_text == WithContext(fetch_manifest_text(response),
            <<"Failed to fetch manifest text from URI '", uri, "'">>)
    IN  IF ~manifest_text.ok THEN manifest_text
        ELSE LET statement_payload == WithContext(
                     verify_signature_with_pae(Unwrap(manifest_text).text[1],
                                               expected_identity),
                     <<"Signature/identity verification failed for URI '", uri,
                       "' with expected identity '", expected_identity, "'">>)
             IN  IF ~statement_payload.ok THEN statement_payload
                 ELSE ParseVerified(uri, Unwrap(statement_payload))

(***************************************************************************)
(* traversal.rs: the error messages                                        *)
(***************************************************************************)
CycleMessage(uri) == <<"Cycle detected: URI '", uri, "' already visited">>

DepthWouldBeExceededMessage(limit, uri) ==
    <<"Maximum traversal depth (">> \o Decimal(limit)
        \o <<") would be exceeded at URI '", uri, "'">>

DepthExceededMessage(limit, uri) ==
    <<"Maximum traversal depth (">> \o Decimal(limit)
        \o <<") exceeded at URI '", uri, "'">>

ErrorEntry(uri, message) == [uri |-> uri, message |-> message]

(***************************************************************************)
(* models/aggregation.rs                                                   *)
(***************************************************************************)
AggregatedCatalogData_default ==
    [catalog_predicate |-> None, components |-> <<>>, root_error |-> None,
     component_errors |-> <<>>]

AggregatedComponentData(component_predicate, component_link_uri) ==
    [component_predicate |-> Some(component_predicate), releases |-> <<>>,
     component_link_uri |-> component_link_uri, release_errors |-> <<>>]

AggregatedReleaseData(release_predicate, release_link_uri) ==
    [release_predicate |-> Some(release_predicate),
     metadata_artifacts |-> IF release_predicate.metadata_links = None THEN <<>>
                            ELSE release_predicate.metadata_links[1],
     release_link_uri |-> release_link_uri,
     artifact_fetch_errors |-> <<>>]

(***************************************************************************)
(* traversal.rs: traverse_and_aggregate, the match arms on the result of   *)
(* a process_attestation_uri call at depth 0 (lines 28-31, 149-163),       *)
(* depth 1 (lines 67-73, 135-145) and depth 2 (lines 106-130).             *)
(***************************************************************************)
\* as if line 27 ended in `?`: a failure of the root is returned
RootArmsPropagate(result) ==
    IF result.ok
    THEN /\ aggregated_data' =
              [aggregated_data EXCEPT !.catalog_predicate = Some(Unwrap(result))]
         /\ ci' = 1
         /\ pc' = "components"
         /\ returned' = returned
    ELSE /\ returned' = Some(result)
         /\ pc' = "done"
         /\ UNCHANGED <<aggregated_data, ci>>

\* as if line 28 matched any predicate
RootArmsLenient(result) ==
    IF result.ok
    THEN /\ aggregated_data' =
              [aggregated_data EXCEPT !.catalog_predicate = Some(Unwrap(result))]
         /\ ci' = 1
         /\ pc' = "components"
         /\ returned' = returned
    ELSE /\ aggregated_data' = [aggregated_data EXCEPT !.root_error =
              Some(<<"Failed to process root URI '", root_uri, "': ">>
                     \o to_string(result))]
         /\ ci' = ci
         /\ pc' = "return"
         /\ returned' = returned

RootArms(result) ==
    IF result.ok /\ Unwrap(result).kind = "Catalog"
    THEN /\ aggregated_data' =
              [aggregated_data EXCEPT !.catalog_predicate = Some(Unwrap(result))]
         /\ ci' = 1
         /\ pc' = "components"
         /\ returned' = returned
    ELSE /\ aggregated_data' = [aggregated_data EXCEPT !.root_error =
              IF result.ok
              THEN Some(<<"Expected Catalog predicate at root URI '", root_uri,
                          "', but found ">> \o Debug(Unwrap(result)))
              ELSE Some(<<"Failed to process root URI '", root_uri, "': ">>
                          \o to_string(result))]
         /\ ci' = ci
         /\ pc' = "return"
         /\ returned' = returned

\* as if a failing component ended the loop
ComponentArmsAbort(component_uri, result) ==
    IF result.ok /\ Unwrap(result).kind = "Component"
    THEN /\ agg_comp_data' = Some(AggregatedComponentData(Unwrap(result), component_uri))
         /\ ri' = 1
         /\ pc' = "releases"
         /\ UNCHANGED <<aggregated_data, ci, returned>>
    ELSE /\ aggregated_data' = [aggregated_data EXCEPT !.component_errors =
              Append(@, ErrorEntry(component_uri,
                  IF result.ok
                  THEN <<"Expected Component predicate, found ">> \o Debug(Unwrap(result))
                  ELSE to_string(result)))]
         /\ ci' = ci
         /\ pc' = "return"
         /\ UNCHANGED <<agg_comp_data, ri, returned>>

\* as if line 67 matched any predicate
ComponentArmsLenient(component_uri, result) ==
    IF result.ok
    THEN /\ agg_comp_data' = Some(AggregatedComponentData(Unwrap(result), component_uri))
         /\ ri' = 1
         /\ pc' = "releases"
         /\ UNCHANGED <<aggregated_data, ci, returned>>
    ELSE /\ aggregated_data' = [aggregated_data EXCEPT !.component_errors =
              Append(@, ErrorEntry(component_uri, to_string(result)))]
         /\ ci' = ci + 1
         /\ pc' = "components"
         /\ UNCHANGED <<agg_comp_data, ri, returned>>

ComponentArms(component_uri, result) ==
    IF result.ok /\ Unwrap(result).kind = "Component"
    THEN /\ agg_comp_data' = Some(AggregatedComponentData(Unwrap(result), component_uri))
         /\ ri' = 1
         /\ pc' = "releases"
         /\ UNCHANGED <<aggregated_data, ci, returned>>
    ELSE /\ aggregated_data' = [aggregated_data EXCEPT !.component_errors =
              Append(@, ErrorEntry(component_uri,
                  IF result.ok
                  THEN <<"Expected Component predicate, found ">> \o Debug(Unwrap(result))
                  ELSE to_string(result)))]
         /\ ci' = ci + 1
         /\ pc' = "components"
         /\ UNCHANGED <<agg_comp_data, ri, returned>>

\* as if lines 117-130 were missing: a release that is not aggregated
\* leaves no entry
ReleaseArmsDropErrors(release_uri, result) ==
    /\ agg_comp_data' = Some(
         IF result.ok /\ Unwrap(result).kind = "Release"
         THEN [agg_comp_data[1] EXCEPT !.releases =
                  Append(@, AggregatedReleaseData(Unwrap(result), release_uri))]
         ELSE agg_comp_data[1])
    /\ ri' = ri + 1
    /\ pc' = "releases"
    /\ UNCHANGED <<aggregated_data, ci, returned>>

ReleaseArms(release_uri, result) ==
    /\ agg_comp_data' = Some(
         IF result.ok /\ Unwrap(result).kind = "Release"
         THEN [agg_comp_data[1] EXCEPT !.releases =
                  Append(@, AggregatedReleaseData(Unwrap(result), release_uri))]
         ELSE [agg_comp_data[1] EXCEPT !.release_errors =
                  Append(@, ErrorEntry(release_uri,
                      IF result.ok
                      THEN <<"Expected Release predicate, found ">> \o Debug(Unwrap(result))
                      ELSE to_string(result)))])
    /\ ri' = ri + 1
    /\ pc' = "releases"
    /\ UNCHANGED <<aggregated_data, ci, returned>>

\* the arm of the call site at `depth`
Arms(depth, uri, result, expected_identity, general_names) ==
    /\ CASE depth = 0 -> RootArms(result) /\ UNCHANGED <<agg_comp_data, ri>>
         [] depth = 1 -> ComponentArms(uri, result)
         [] OTHER -> ReleaseArms(uri, result)
    /\ last_result' = Some([uri |-> uri, depth |-> depth, ok |-> result.ok,
                            expected |-> expected_identity, names |-> general_names,
                            kind |-> IF result.ok THEN Unwrap(result).kind ELSE "Err"])

(***************************************************************************)
(* traversal.rs: the depth guards of lines 46, 89 and 182                  *)
(***************************************************************************)
DepthGuardStrict(depth, limit) == depth > limit

DepthGuard(depth, limit) == depth >= limit

(***************************************************************************)
(* traversal.rs: process_attestation_uri, lines 176-190: the guards and    *)
(* the insertion into visited_uris.  The call either fails at once (its    *)
(* caller's arm runs) or goes on to its fetch with its URI marked.         *)
(***************************************************************************)
EnterWithoutMark(uri, expected_identity, depth) ==
    IF uri \in visited_uris
    THEN Arms(depth, uri, Err(CycleMessage(uri)), expected_identity, <<>>)
         /\ UNCHANGED <<visited_uris, call>>
    ELSE IF DepthGuard(depth, max_depth)
    THEN Arms(depth, uri, Err(DepthExceededMessage(max_depth, uri)), expected_identity,
              <<>>)
         /\ UNCHANGED <<visited_uris, call>>
    ELSE /\ call' = Some([uri |-> uri, expected_identity |-> expected_identity,
                          depth |-> depth])
         /\ pc' = "marked"
         /\ UNCHANGED <<visited_uris, aggregated_data, agg_comp_data, ci, ri, returned,
                        last_result>>

Enter(uri, expected_identity, depth) ==
    IF uri \in visited_uris
    THEN Arms(depth, uri, Err(CycleMessage(uri)), expected_identity, <<>>)
         /\ UNCHANGED <<visited_uris, call>>
    ELSE IF DepthGuard(depth, max_depth)
    THEN Arms(depth, uri, Err(DepthExceededMessage(max_depth, uri)), expected_identity,
              <<>>)
         /\ UNCHANGED <<visited_uris, call>>
    ELSE /\ visited_uris' = visited_uris \cup {uri}
         /\ call' = Some([uri |-> uri, expected_identity |-> expected_identity,
                          depth |-> depth])
         /\ pc' = "marked"
         /\ UNCHANGED <<aggregated_data, agg_comp_data, ci, ri, returned, last_result>>

(***************************************************************************)
(* The environment: what the signers publish and the servers answer.       *)
(***************************************************************************)
Uris == {"u0", "u1", "u2", "u3", "u4"}
RootUri == "u0"
CatalogTargets == {"u0", "u1", "u2"}         \* where catalog entries point
ReleaseTargets == {"u1", "u3", "u4"}         \* where release attestation links point
PayloadType == <<"application/vnd.in-toto+json">>

Link(uri) == [uri |-> uri, expected_signer_identity |-> "alice@x"]
LinkLists(targets, n) == UNION {[1..k -> {Link(u) : u \in targets}] : k \in 0..n}

\* DSSE v1: the bytes a conforming signer signs
DssePae(type, body) ==
    <<"D", "S", "S", "E", "v", "1", " ">> \o Decimal(Len(type)) \o <<" ">> \o type
        \o <<" ">> \o Decimal(Len(body)) \o <<" ">> \o body

Sign(key, message) == [key |-> key, msg |-> message]
RFC822Name(email) == [type |-> "RFC822Name", value |-> email]
Certificate(key, general_names) ==
    [x509_ok |-> TRUE, public_key |-> key,
     san |-> Some([san_ok |-> TRUE, general_names |-> general_names])]
NotBase64 == [b64 |-> FALSE, data |-> <<>>]

\* a bundle signed over the PAE of its payload with the key of its certificate
SignedBundle(statement_bytes, email) ==
    [json_ok |-> TRUE,
     raw_bytes |-> B64Encode(Certificate("k1", <<RFC822Name(email)>>)),
     payload |-> B64Encode(statement_bytes),
     payload_type |-> PayloadType,
     signatures |-> <<B64Encode(Sign("k1", DssePae(PayloadType, statement_bytes)))>>]

CatalogStatements ==
    {StatementBytes(CATALOG_V1, TokensOf(l)) : l \in LinkLists(CatalogTargets, MaxComponents)}
ComponentStatements ==
    {StatementBytes(COMPONENT_V1, TokensOf(l)) : l \in LinkLists(ReleaseTargets, MaxReleases)}
ReleaseStatement == StatementBytes(RELEASE_V1, <<"metadataLinks", "sbom">>)
JunkStatement == <<"junk">>

\* one statement of every kind, and the ones that do not parse
OtherStatements ==
    {StatementBytes(CATALOG_V1, TokensOf(<<Link("u1")>>)),
     StatementBytes(COMPONENT_V1, TokensOf(<<Link("u3")>>)),
     ReleaseStatement,
     StatementBytes(RELEASE_V1, <<>>),
     StatementBytes("https://example.com/other/v1", <<"x">>),
     StatementBytes(CATALOG_V1, <<"!">>),
     StatementBytes(COMPONENT_V1, <<"u1">>),
     StatementBytes(RELEASE_V1, <<"!">>),
     JunkStatement}

TamperedBundle ==
    [SignedBundle(ReleaseStatement, "alice@x") EXCEPT
        !.signatures = <<B64Encode(Sign("k1", <<"tampered">>))>>]
WrongSignerBundle == SignedBundle(ReleaseStatement, "bob@x")

\* bundles that fail verification, one per step of verify_signature_with_pae
BrokenBundles ==
    LET good == SignedBundle(ReleaseStatement, "alice@x")
    IN  {[good EXCEPT !.json_ok = FALSE],
         [good EXCEPT !.signatures = <<>>],
         [good EXCEPT !.payload = NotBase64],
         [good EXCEPT !.raw_bytes = NotBase64],
         TamperedBundle,
         WrongSignerBundle}

Body(bundle) == <<[lead |-> 1, text |-> None, trail |-> 0],
                  [lead |-> 0, text |-> Some(bundle), trail |-> 1],
                  [lead |-> 0, text |-> Some([bundle EXCEPT !.json_ok = FALSE]),
                   trail |-> 0]>>

Answer(bundle) == [net_ok |-> TRUE, status |-> 200, lines |-> Body(bundle)]

FailedFetches ==
    {[net_ok |-> FALSE, status |-> 0, lines |-> <<>>],
     [net_ok |-> TRUE, status |-> 404, lines |-> <<>>],
     [net_ok |-> TRUE, status |-> 200, lines |-> <<>>],
     [net_ok |-> TRUE, status |-> 200,
      lines |-> <<[lead |-> 2, text |-> None, trail |-> 0]>>]}

AnyFailure ==
    FailedFetches
    \cup {Answer(b) : b \in BrokenBundles}
    \cup {Answer(SignedBundle(st, "alice@x")) : st \in OtherStatements}

\* a second site, whose links name several identities and whose manifests
\* are signed under several certificates
IdentityUris == {"v0", "v1", "v2", "v3"}
Signers ==
    {<<RFC822Name("alice@x")>>,
     <<RFC822Name("bob@x")>>,
     <<RFC822Name("bob@x"), RFC822Name("Alice@X")>>,
     <<[type |-> "URI", value |-> "alice@x"]>>}
SignedBy(statement_bytes, general_names) ==
    [SignedBundle(statement_bytes, "alice@x") EXCEPT
        !.raw_bytes = B64Encode(Certificate("k1", general_names))]
LinkTo(uri, identity) == [uri |-> uri, expected_signer_identity |-> identity]
IdentityCatalogs ==
    LET links == {LinkTo("v1", "alice@x"), LinkTo("v1", "bob@x"), LinkTo("v2", "ALICE@x")}
    IN  {StatementBytes(CATALOG_V1, TokensOf(l)) :
            l \in UNION {[1..k -> links] : k \in 1..MaxComponents}}
IdentityComponents ==
    LET links == {LinkTo("v3", "alice@x"), LinkTo("v3", "bob@x")}
    IN  {StatementBytes(COMPONENT_V1, TokensOf(l)) :
            l \in UNION {[1..k -> links] : k \in 0..MaxReleases}}

\* a third site, two of whose servers accept a request and never answer it
SilentUris == {"w1", "w3"}
SilentSiteCatalogs ==
    {StatementBytes(CATALOG_V1, TokensOf(l)) :
        l \in LinkLists({"w1", "w2", "w5"}, MaxComponents)}
SilentSiteComponents ==
    {StatementBytes(COMPONENT_V1, TokensOf(l)) :
        l \in LinkLists({"w3", "w4"}, MaxReleases)}

\* a fourth site, whose manifests carry sub-catalogs, sub-components and
\* metadata links; s1..s4 are named by those fields only
SideOnlyUris == {"s1", "s2", "s3", "s4"}
SubLinkCatalogs ==
    {StatementBytes(CATALOG_V1, TokensOf(l) \o optional) :
        l \in LinkLists({"x1", "x2"}, MaxComponents),
        optional \in {<<>>, <<"subCatalogs", "s1", "x2", "metadataLinks", "s3">>}}
SubLinkComponents ==
    {StatementBytes(COMPONENT_V1, TokensOf(l) \o optional) :
        l \in LinkLists({"x3", "x4"}, MaxReleases),
        optional \in {<<>>, <<"subComponents", "s2", "x2", "metadataLinks", "s3", "x4">>}}
SubLinkReleases ==
    {ReleaseStatement,
     StatementBytes(RELEASE_V1, <<"metadataLinks", "s3", "x4", "artifacts", "s4">>)}

\* what the server of each URI may answer to a GET
Served(uri) ==
    CASE uri \in SilentUris -> {}
      [] uri = "x0" ->
           {Answer(SignedBundle(st, "alice@x")) : st \in SubLinkCatalogs}
      [] uri \in {"x1", "x2", "s1", "s2"} ->
           {Answer(SignedBundle(st, "alice@x")) : st \in SubLinkComponents}
           \cup {Answer(WrongSignerBundle)}
      [] uri \in {"x3", "x4", "s3", "s4"} ->
           {Answer(SignedBundle(st, "alice@x")) : st \in SubLinkReleases}
      [] uri = "w0" ->
           {Answer(SignedBundle(st, "alice@x")) : st \in SilentSiteCatalogs}
           \cup {[net_ok |-> FALSE, status |-> 0, lines |-> <<>>]}
      [] uri \in {"w2", "w5"} ->
           {Answer(SignedBundle(st, "alice@x")) : st \in SilentSiteComponents}
           \cup {[net_ok |-> FALSE, status |-> 0, lines |-> <<>>]}
      [] uri = "v0" ->
           {Answer(SignedBy(st, names)) : st \in IdentityCatalogs, names \in Signers}
      [] uri \in {"v1", "v2"} ->
           {Answer(SignedBy(st, names)) : st \in IdentityComponents, names \in Signers}
           \cup {[net_ok |-> TRUE, status |-> 404, lines |-> <<>>],
                 Answer(SignedBundle(JunkStatement, "alice@x"))}
      [] uri = "v3" ->
           {Answer(SignedBy(ReleaseStatement, names)) : names \in Signers}
           \cup {[net_ok |-> TRUE, status |-> 404, lines |-> <<>>],
                 Answer(SignedBundle(JunkStatement, "alice@x"))}
      [] uri = "u0" ->
           AnyFailure \cup {Answer(SignedBundle(st, "alice@x")) : st \in CatalogStatements}
      [] uri = "u1" ->
           AnyFailure \cup {Answer(SignedBundle(st, "alice@x")) : st \in ComponentStatements}
      [] uri = "u2" ->
           {Answer(TamperedBundle)}
           \cup {Answer(SignedBundle(st, "alice@x")) : st \in ComponentStatements}
      [] uri = "u3" -> AnyFailure
      [] OTHER ->
           {Answer(SignedBundle(ReleaseStatement, "alice@x")), Answer(WrongSignerBundle)}

(***************************************************************************)
(* traversal.rs: traverse_and_aggregate                                    *)
(***************************************************************************)
TravInit ==
    /\ root_uri = RootUri
    /\ root_identity = "alice@x"
    /\ visited_uris = {}
    /\ aggregated_data = AggregatedCatalogData_default
    /\ agg_comp_data = None
    /\ ci = 0
    /\ ri = 0
    /\ call = None
    /\ pc = "start"
    /\ requests = <<>>
    /\ returned = None
    /\ last_result = None

Init ==
    /\ TravInit
    /\ max_depth = MAX_DEPTH
    /\ vin = None
    /\ vout = None

Catalog == aggregated_data.catalog_predicate[1]
Component == agg_comp_data[1].component_predicate[1]

Frame == UNCHANGED <<root_uri, root_identity, max_depth, vin, vout>>

\* as if every manifest were verified against the root's identity
IdentityOfRoot(link) == root_identity

\* lines 36 and 78: the identity a link's manifest is verified against
IdentityOfLink(link) == link.expected_signer_identity

\* the SAN entries of the certificate of the bundle on the first non-blank
\* line of a response that verified
CertificateNames(response) ==
    Unwrap(fetch_manifest_text(response)).text[1].raw_bytes.data.san[1].general_names

\* line 27: the call for the root
ProcessRoot ==
    /\ pc = "start"
    /\ Enter(root_uri, root_identity, 0)
    /\ UNCHANGED requests
    /\ Frame

\* lines 32-65: one iteration of the component loop, up to the call
ComponentLoop ==
    /\ pc = "components"
    /\ ci <= Len(Catalog.links)
    /\ LET component_uri == Catalog.links[ci].uri
           component_identity == IdentityOfLink(Catalog.links[ci])
       IN  IF component_uri \in visited_uris
           THEN /\ aggregated_data' = [aggregated_data EXCEPT !.component_errors =
                      Append(@, ErrorEntry(component_uri, CycleMessage(component_uri)))]
                /\ ci' = ci + 1
                /\ UNCHANGED <<visited_uris, agg_comp_data, ri, call, pc, returned,
                               last_result>>
           ELSE IF DepthGuard(0 + 1, max_depth)
           THEN /\ aggregated_data' = [aggregated_data EXCEPT !.component_errors =
                      Append(@, ErrorEntry(component_uri,
                          DepthWouldBeExceededMessage(max_depth, component_uri)))]
                /\ ci' = ci + 1
                /\ UNCHANGED <<visited_uris, agg_comp_data, ri, call, pc, returned,
                               last_result>>
           ELSE Enter(component_uri, component_identity, 1)
    /\ UNCHANGED requests
    /\ Frame

\* lines 75-104: one iteration of the release loop, up to the call
ReleaseLoop ==
    /\ pc = "releases"
    /\ ri <= Len(Component.links)
    /\ LET release_uri == Component.links[ri].uri
           release_identity == IdentityOfLink(Component.links[ri])
       IN  IF release_uri \in visited_uris
           THEN /\ agg_comp_data' = Some([agg_comp_data[1] EXCEPT !.release_errors =
                      Append(@, ErrorEntry(release_uri, CycleMessage(release_uri)))])
                /\ ri' = ri + 1
                /\ UNCHANGED <<visited_uris, aggregated_data, ci, call, pc, returned,
                               last_result>>
           ELSE IF DepthGuard(1 + 1, max_depth)
           THEN /\ agg_comp_data' = Some([agg_comp_data[1] EXCEPT !.release_errors =
                      Append(@, ErrorEntry(release_uri,
                          DepthWouldBeExceededMessage(max_depth, release_uri)))])
                /\ ri' = ri + 1
                /\ UNCHANGED <<visited_uris, aggregated_data, ci, call, pc, returned,
                               last_result>>
           ELSE Enter(release_uri, release_identity, 2)
    /\ UNCHANGED requests
    /\ Frame

\* as if line 133 inserted at the front
EndComponentPrepend ==
    /\ pc = "releases"
    /\ ri > Len(Component.links)
    /\ aggregated_data' = [aggregated_data EXCEPT !.components =
                              <<agg_comp_data[1]>> \o @]
    /\ agg_comp_data' = None
    /\ ri' = 0
    /\ ci' = ci + 1
    /\ pc' = "components"
    /\ UNCHANGED <<visited_uris, call, requests, returned, last_result>>
    /\ Frame

\* line 133: the release loop is over
EndComponent ==
    /\ pc = "releases"
    /\ ri > Len(Component.links)
    /\ aggregated_data' = [aggregated_data EXCEPT !.components =
                              Append(@, agg_comp_data[1])]
    /\ agg_comp_data' = None
    /\ ri' = 0
    /\ ci' = ci + 1
    /\ pc' = "components"
    /\ UNCHANGED <<visited_uris, call, requests, returned, last_result>>
    /\ Frame

\* line 192: fetch_manifest_text(uri) sends its GET
FetchBegin ==
    /\ pc = "marked"
    /\ requests' = Append(requests, call[1].uri)
    /\ pc' = "fetching"
    /\ UNCHANGED <<visited_uris, aggregated_data, agg_comp_data, ci, ri, call, returned,
                   last_result>>
    /\ Frame

\* as if a URI whose processing failed were taken out of visited_uris
FetchCompleteForgetFailed ==
    /\ pc = "fetching"
    /\ \E response \in Served(call[1].uri) :
         LET result == ProcessFetched(call[1].uri, call[1].expected_identity, response)
         IN  /\ Arms(call[1].depth, call[1].uri, result, call[1].expected_identity,
                     IF result.ok THEN CertificateNames(response) ELSE <<>>)
             /\ visited_uris' = IF result.ok THEN visited_uris
                                ELSE visited_uris \ {call[1].uri}
    /\ call' = None
    /\ UNCHANGED requests
    /\ Frame

\* lines 192-215 and the caller's arm: the GET completes
FetchComplete ==
    /\ pc = "fetching"
    /\ \E response \in Served(call[1].uri) :
         LET result == ProcessFetched(call[1].uri, call[1].expected_identity, response)
         IN  Arms(call[1].depth, call[1].uri, result, call[1].expected_identity,
                  IF result.ok THEN CertificateNames(response) ELSE <<>>)
    /\ call' = None
    /\ UNCHANGED <<visited_uris, requests>>
    /\ Frame

\* line 166
Return ==
    /\ IF pc = "components" THEN ci > Len(Catalog.links) ELSE pc = "return"
    /\ returned' = Some(Ok(aggregated_data))
    /\ pc' = "done"
    /\ UNCHANGED <<visited_uris, aggregated_data, agg_comp_data, ci, ri, call, requests,
                   last_result>>
    /\ Frame

Next ==
    \/ ProcessRoot
    \/ ComponentLoop
    \/ ReleaseLoop
    \/ EndComponent
    \/ FetchBegin
    \/ FetchComplete
    \/ Return

Spec == Init /\ [][Next]_vars

\* the same program on the second site, for each identity the root may have
IdentityInit ==
    /\ root_uri = "v0"
    /\ root_identity \in {"alice@x", "bob@x", "ALICE@x"}
    /\ visited_uris = {}
    /\ aggregated_data = AggregatedCatalogData_default
    /\ agg_comp_data = None
    /\ ci = 0
    /\ ri = 0
    /\ call = None
    /\ pc = "start"
    /\ requests = <<>>
    /\ returned = None
    /\ last_result = None
    /\ max_depth = MAX_DEPTH
    /\ vin = None
    /\ vout = None

SpecIdentity == IdentityInit /\ [][Next]_vars

\* the depth limit as a parameter: the same program under small limits
DepthInit ==
    /\ TravInit
    /\ max_depth \in {1, 2, 3, MAX_DEPTH}
    /\ vin = None
    /\ vout = None

SpecDepth == DepthInit /\ [][Next]_vars

(***************************************************************************)
(* verify_signature_with_pae on its own: one call on a bundle text and an  *)
(* expected identity.                                                      *)
(***************************************************************************)
VerifyPayloads == {ReleaseStatement, <<"other">>}
VerifyPayloadTypes == {PayloadType, <<"text", "/plain">>}
VerifyCertificates ==
    {Certificate("k1", <<RFC822Name("alice@x")>>),
     Certificate("k1", <<RFC822Name("Alice@X")>>),
     Certificate("k1", <<RFC822Name("bob@x")>>),
     Certificate("k1", <<RFC822Name("bob@x"), RFC822Name("alice@x")>>),
     Certificate("k1", <<[type |-> "URI", value |-> "alice@x"]>>),
     Certificate("k1", <<>>),
     Certificate("k2", <<RFC822Name("alice@x")>>),
     [x509_ok |-> TRUE, public_key |-> "k1", san |-> None],
     [x509_ok |-> TRUE, public_key |-> "k1",
      san |-> Some([san_ok |-> FALSE, general_names |-> <<RFC822Name("alice@x")>>])],
     [x509_ok |-> FALSE, public_key |-> "k1",
      san |-> Some([san_ok |-> TRUE, general_names |-> <<RFC822Name("alice@x")>>])]}
VerifySignatures ==
    {B64Encode(Sign("k1", DssePae(t, p))) : t \in VerifyPayloadTypes, p \in VerifyPayloads}
    \cup {B64Encode(Sign("k2", DssePae(PayloadType, ReleaseStatement))),
          B64Encode(Sign("k1", ReleaseStatement)),
          NotBase64}
VerifySignatureLists ==
    {<<>>} \cup {<<s>> : s \in VerifySignatures}
    \cup {<<B64Encode(Sign("k1", DssePae(PayloadType, ReleaseStatement))), NotBase64>>,
          <<NotBase64, B64Encode(Sign("k1", DssePae(PayloadType, ReleaseStatement)))>>}
VerifyBundles ==
    [json_ok : BOOLEAN,
     raw_bytes : {B64Encode(c) : c \in VerifyCertificates} \cup {NotBase64},
     payload : {B64Encode(p) : p \in VerifyPayloads} \cup {NotBase64},
     payload_type : VerifyPayloadTypes,
     signatures : VerifySignatureLists]
VerifyInputs ==
    [bundle_json_text : VerifyBundles, expected_identity : {"alice@x", "ALICE@x", "bob@x"}]

VerifyInit ==
    /\ TravInit
    /\ max_depth = MAX_DEPTH
    /\ vin \in {Some(i) : i \in VerifyInputs}
    /\ vout = None

\* attestation.rs:14: the call
Verify ==
    /\ vin # None
    /\ vout = None
    /\ vout' = Some(verify_signature_with_pae(vin[1].bundle_json_text,
                                              vin[1].expected_identity))
    /\ UNCHANGED <<root_uri, root_identity, max_depth, visited_uris, aggregated_data,
                   agg_comp_data, ci, ri, call, pc, requests, returned, last_result, vin>>

VerifyNext == Verify

SpecVerify == VerifyInit /\ [][VerifyNext]_vars

(***************************************************************************)
(* verify_signature_with_pae on a bundle that verifies, after one byte of  *)
(* one of its fields has been changed.  A changed byte of a sequence is    *)
(* the token at one position replaced by another; a changed byte of a      *)
(* base64 text leaves a text that no longer decodes, or one that decodes   *)
(* to other bytes (the STANDARD engine accepts canonical encodings only,   *)
(* so no two texts decode to the same bytes); a changed signature is       *)
(* another signature value.                                                *)
(***************************************************************************)
FlipAt(bytes, i) == [bytes EXCEPT ![i] = IF @ = "~" THEN "#" ELSE "~"]
Flips(bytes) == {FlipAt(bytes, i) : i \in DOMAIN bytes}
TextFlips(text) == {NotBase64} \cup {B64Encode(d) : d \in Flips(text.data)}
SignatureFlips(text) ==
    {NotBase64, B64Encode([text.data EXCEPT !.key = "k2"])}
    \cup {B64Encode([text.data EXCEPT !.msg = m]) : m \in Flips(text.data.msg)}

VerifyingBundle(payload_type, payload) ==
    [SignedBundle(payload, "alice@x") EXCEPT
        !.payload_type = payload_type,
        !.signatures = <<B64Encode(Sign("k1", DssePae(payload_type, payload)))>>]

Tampered(bundle) ==
    {[field |-> "sig", bundle_json_text |-> [bundle EXCEPT !.signatures = <<t>>]] :
        t \in SignatureFlips(bundle.signatures[1])}
    \cup {[field |-> "payload", bundle_json_text |-> [bundle EXCEPT !.payload = t]] :
             t \in TextFlips(bundle.payload)}
    \cup {[field |-> "payloadType", bundle_json_text |-> [bundle EXCEPT !.payload_type = t]] :
             t \in Flips(bundle.payload_type)}

TamperInputs ==
    UNION {{[field |-> t.field, bundle_json_text |-> t.bundle_json_text, original |-> b,
             expected_identity |-> "alice@x"] : t \in Tampered(b)} :
           b \in {VerifyingBundle(pt, p) : pt \in VerifyPayloadTypes, p \in VerifyPayloads}}

TamperInit ==
    /\ TravInit
    /\ max_depth = MAX_DEPTH
    /\ vin \in {Some(i) : i \in TamperInputs}
    /\ vout = None

SpecTamper == TamperInit /\ [][VerifyNext]_vars

(***************************************************************************)
(* construct_pae on its own.  Payload types and payloads are runs of one   *)
(* byte, among them the separator and a digit.                             *)
(***************************************************************************)
PaeBytes == {"a", " ", "7"}
PaeRuns == {[i \in 1..n |-> b] : n \in 0..MaxPaeLen, b \in PaeBytes}
PaeInputs == [payload_type : PaeRuns, payload : PaeRuns]

PaeInit ==
    /\ TravInit
    /\ max_depth = MAX_DEPTH
    /\ vin \in {Some(i) : i \in PaeInputs}
    /\ vout = None

\* attestation.rs:69: the call
ConstructPae ==
    /\ vin # None
    /\ vout = None
    /\ vout' = Some(construct_pae(vin[1].payload_type, vin[1].payload))
    /\ UNCHANGED <<root_uri, root_identity, max_depth, visited_uris, aggregated_data,
                   agg_comp_data, ci, ri, call, pc, requests, returned, last_result, vin>>

PaeNext == ConstructPae

SpecPae == PaeInit /\ [][PaeNext]_vars

(***************************************************************************)
(* parse_predicate on its own: one call on a statement.                    *)
(***************************************************************************)
ParseTypes ==
    {CATALOG_V1, COMPONENT_V1, RELEASE_V1,
     "https://example.com/other/v1",
     "https://chainsights.rest/Catalog/v1",
     "https://chainsights.rest/release/v1/",
     "https://chainsights.rest/component/v2",
     ""}
ParseValues ==
    {<<>>, <<"!">>, <<"x">>, <<"u1">>,
     TokensOf(<<Link("u1")>>), TokensOf(<<Link("u1"), Link("u2")>>),
     <<"u1", "alice@x", "u2">>,
     <<"metadataLinks">>, <<"metadataLinks", "sbom">>}
ParseInputs == [predicate_type : ParseTypes, predicate : ParseValues]

ParseInit ==
    /\ TravInit
    /\ max_depth = MAX_DEPTH
    /\ vin \in {Some(i) : i \in ParseInputs}
    /\ vout = None

\* models/chainsights.rs:194: the call
ParsePredicate ==
    /\ vin # None
    /\ vout = None
    /\ vout' = Some(parse_predicate(vin[1]))
    /\ UNCHANGED <<root_uri, root_identity, max_depth, visited_uris, aggregated_data,
                   agg_comp_data, ci, ri, call, pc, requests, returned, last_result, vin>>

ParseNext == ParsePredicate

SpecParse == ParseInit /\ [][ParseNext]_vars

(***************************************************************************)
(* inspect_certificate_identity_from_der on its own: one call on a         *)
(* certificate and an expected identity.                                   *)
(***************************************************************************)
InspectNames ==
    {RFC822Name("alice@x"), RFC822Name("Alice@X"), RFC822Name("bob@x"),
     RFC822Name("alice@Example.COM"),
     [type |-> "URI", value |-> "alice@x"],
     [type |-> "DNSName", value |-> "alice@x"]}
InspectNameLists == UNION {[1..k -> InspectNames] : k \in 0..MaxNames}
InspectCertificates ==
    [x509_ok : BOOLEAN, public_key : {"k1"},
     san : {None} \cup {Some([san_ok |-> ok, general_names |-> l]) :
                           ok \in BOOLEAN, l \in InspectNameLists}]
InspectInputs ==
    [cert_der_bytes : InspectCertificates,
     expected_identity : {"alice@x", "ALICE@x", "bob@x", "ALICE@example.com"}]

InspectInit ==
    /\ TravInit
    /\ max_depth = MAX_DEPTH
    /\ vin \in {Some(i) : i \in InspectInputs}
    /\ vout = None

\* attestation.rs:84: the call
Inspect ==
    /\ vin # None
    /\ vout = None
    /\ vout' = Some(inspect_certificate_identity_from_der(vin[1].cert_der_bytes,
                                                          vin[1].expected_identity))
    /\ UNCHANGED <<root_uri, root_identity, max_depth, visited_uris, aggregated_data,
                   agg_comp_data, ci, ri, call, pc, requests, returned, last_result, vin>>

InspectNext == Inspect

SpecInspect == InspectInit /\ [][InspectNext]_vars

(***************************************************************************)
(* Notions the properties are stated in.                                   *)
(***************************************************************************)
HasCatalog == aggregated_data.catalog_predicate # None
Components == aggregated_data.components
ComponentErrors == aggregated_data.component_errors
Done == pc = "done"
InFlight == pc \in {"marked", "fetching"}
Min(a, b) == IF a < b THEN a ELSE b
\* the number of catalog entries the component loop has finished with
EntriesDone == Min(ci - 1, Len(Catalog.links))
Occurrences(seq, x) == Cardinality({k \in DOMAIN seq : seq[k] = x})
UrisOf(entries) == [k \in DOMAIN entries |-> entries[k].uri]
Range(seq) == {seq[k] : k \in DOMAIN seq}
\* the aggregated components, the one in progress included
AllComponents == IF agg_comp_data = None THEN Components
                 ELSE Append(Components, agg_comp_data[1])

(***************************************************************************)
(* C1: a catalog entry whose componentAttestationLink.uri is the root URI  *)
(* produces exactly one componentErrors element (rootUri, "Cycle detected: *)
(* URI '<rootUri>' already visited"), no AggregatedComponent, and the root *)
(* URI is fetched exactly once in the whole traversal.                     *)
(***************************************************************************)
C1_RootLinkIsCycle ==
    HasCatalog =>
      LET back == {i \in 1..EntriesDone : Catalog.links[i].uri = root_uri}
          errs == {j \in DOMAIN ComponentErrors : ComponentErrors[j].uri = root_uri}
      IN  /\ Cardinality(errs) = Cardinality(back)
          /\ \A j \in errs : ComponentErrors[j].message =
                <<"Cycle detected: URI '", root_uri, "' already visited">>
          /\ \A k \in DOMAIN AllComponents :
                AllComponents[k].component_link_uri # root_uri
          /\ Occurrences(requests, root_uri) = 1

C1_Witness ==
    /\ Done
    /\ HasCatalog
    /\ Len(Catalog.links) = 2
    /\ Catalog.links[1].uri = root_uri
    /\ Len(Components) = 1
    /\ ComponentErrors = <<ErrorEntry(root_uri, CycleMessage(root_uri))>>

(***************************************************************************)
(* C2: whatever the link graph (duplicate links, links shared between      *)
(* components, links back to an ancestor), each manifest URI is fetched at *)
(* most once during one call of traverse_and_aggregate.                    *)
(***************************************************************************)
C2_FetchedAtMostOnce ==
    \A u \in Range(requests) : Occurrences(requests, u) = 1

C2_Witness ==
    /\ Done
    /\ Len(Components) = 2
    /\ LET first == UrisOf(Components[1].component_predicate[1].links)
           second == UrisOf(Components[2].component_predicate[1].links)
       IN  /\ Len(first) = 2 /\ first[1] = first[2]             \* a duplicate link
           /\ Len(second) = 2 /\ second[1] = first[1]           \* shared by two components
           /\ second[2] = Components[2].component_link_uri      \* back to an ancestor
           /\ first[1] \in Range(requests)
    /\ Len(requests) = 4

(***************************************************************************)
(* C3: the URI is inserted into visited_uris strictly before its fetch     *)
(* begins: a GET is only ever sent for a URI that is already in the set,   *)
(* and the set holds exactly the URIs whose GET has been sent, plus the    *)
(* one the call in progress is about to send.                              *)
(***************************************************************************)
VisitedIsFetched ==
    visited_uris = Range(requests)
                   \cup (IF pc = "marked" THEN {call[1].uri} ELSE {})

MarkedBeforeFetch ==
    requests' # requests =>
        /\ requests' = Append(requests, call[1].uri)
        /\ call[1].uri \in visited_uris
        /\ call[1].uri \notin Range(requests)

C3_MarkedBeforeFetch == []VisitedIsFetched /\ [][MarkedBeforeFetch]_vars

C3_Witness == pc = "fetching" /\ call[1].depth = 2 /\ Cardinality(visited_uris) = 3

(***************************************************************************)
(* C4 (as stated): with maxDepth = 2 a release-level URI reached through a *)
(* valid catalog and component is still fetched and processed; with        *)
(* maxDepth = 1 the release is skipped and a DepthExceeded error is        *)
(* recorded for it.                                                        *)
(***************************************************************************)
IsDepthError(entry) ==
    \/ entry.message = DepthWouldBeExceededMessage(max_depth, entry.uri)
    \/ entry.message = DepthExceededMessage(max_depth, entry.uri)

\* the release links of component c that were not already visited when reached
C4_Original ==
    /\ max_depth = 2 =>
         \A k \in DOMAIN AllComponents :
           \A j \in DOMAIN AllComponents[k].release_errors :
             ~IsDepthError(AllComponents[k].release_errors[j])
    /\ max_depth = 1 =>
         \A k \in DOMAIN AllComponents :
           /\ AllComponents[k].releases = <<>>
           /\ \A j \in DOMAIN AllComponents[k].release_errors :
                AllComponents[k].release_errors[j].message \in
                  {CycleMessage(AllComponents[k].release_errors[j].uri),
                   DepthWouldBeExceededMessage(1, AllComponents[k].release_errors[j].uri)}

(***************************************************************************)
(* C4 (amended): the guards compare with >=.  With maxDepth = 3 a release  *)
(* reached through a valid catalog and component is fetched and processed  *)
(* (no depth error anywhere).  With maxDepth = 2 components are fetched,   *)
(* no release is: every release link yields a releaseErrors entry, Cycle   *)
(* if its URI is visited and "Maximum traversal depth (2) would be         *)
(* exceeded" otherwise.  With maxDepth = 1 already every component entry   *)
(* is skipped that way, so no component and no release is reached.         *)
(***************************************************************************)
SkippedEntry(uri, limit) ==
    ErrorEntry(uri, IF uri \in visited_uris THEN CycleMessage(uri)
                    ELSE DepthWouldBeExceededMessage(limit, uri))

C4_DepthBound ==
    /\ max_depth = 3 =>
         /\ \A j \in DOMAIN ComponentErrors : ~IsDepthError(ComponentErrors[j])
         /\ \A k \in DOMAIN AllComponents :
              \A j \in DOMAIN AllComponents[k].release_errors :
                ~IsDepthError(AllComponents[k].release_errors[j])
         /\ \A k \in DOMAIN Components :
              Len(Components[k].releases) + Len(Components[k].release_errors)
                = Len(Components[k].component_predicate[1].links)
    /\ max_depth = 2 =>
         /\ InFlight => call[1].depth < 2
         /\ \A j \in DOMAIN ComponentErrors : ~IsDepthError(ComponentErrors[j])
         /\ \A k \in DOMAIN AllComponents : AllComponents[k].releases = <<>>
         /\ \A k \in DOMAIN Components :
              Len(Components[k].release_errors)
                = Len(Components[k].component_predicate[1].links)
         /\ agg_comp_data # None =>
              /\ Len(agg_comp_data[1].release_errors) = Min(ri - 1, Len(Component.links))
              /\ \A j \in DOMAIN agg_comp_data[1].release_errors :
                   agg_comp_data[1].release_errors[j]
                     = SkippedEntry(Component.links[j].uri, 2)
    /\ max_depth = 1 =>
         /\ AllComponents = <<>>
         /\ requests \in {<<>>, <<root_uri>>}
         /\ HasCatalog =>
              /\ Len(ComponentErrors) = EntriesDone
              /\ \A j \in DOMAIN ComponentErrors :
                   ComponentErrors[j] = SkippedEntry(Catalog.links[j].uri, 1)

C4_Witness ==
    /\ Done
    /\ max_depth = 2
    /\ Len(Components) = 1
    /\ Len(Components[1].release_errors) = 2
    /\ Components[1].release_errors[1] = ErrorEntry("u1", CycleMessage("u1"))
    /\ Components[1].release_errors[2] =
         ErrorEntry("u3", DepthWouldBeExceededMessage(2, "u3"))

(***************************************************************************)
(* C5: every manifest is fetched at a depth strictly below maxDepth and at *)
(* most 2; the root is fetched at depth 0, a catalog component at depth 1, *)
(* a release attestation at depth 2.                                       *)
(***************************************************************************)
C5_FetchDepthBelowLimit ==
    InFlight =>
      /\ call[1].depth < max_depth
      /\ call[1].depth \in {0, 1, 2}
      /\ call[1].depth = 0 =>
           ~HasCatalog /\ call[1].uri = root_uri
      /\ call[1].depth = 1 =>
           HasCatalog /\ agg_comp_data = None /\ call[1].uri = Catalog.links[ci].uri
      /\ call[1].depth = 2 =>
           agg_comp_data # None /\ call[1].uri = Component.links[ri].uri

C5_Witness == pc = "fetching" /\ call[1].depth = 2 /\ max_depth = 3

(***************************************************************************)
(* C6: traverse_and_aggregate returns Ok(aggregator) whatever the outcome  *)
(* of each node (fetch failure, empty manifest, malformed bundle, invalid  *)
(* signature, identity mismatch, malformed statement or predicate,         *)
(* unexpected predicate kind, cycle, depth exceeded) at the root, the      *)
(* component and the release level: until it has returned it always has a  *)
(* next step, and what it returns is Ok of the aggregated data.            *)
(***************************************************************************)
\* the guards of the actions of Next, whose effects are total
CanStep ==
    \/ pc \in {"start", "marked", "return"}
    \/ pc = "fetching" /\ call # None /\ Served(call[1].uri) # {}
    \/ pc = "components" /\ HasCatalog
    \/ pc = "releases" /\ agg_comp_data # None

C6_AlwaysReturnsOk ==
    /\ Done <=> returned # None
    /\ returned # None => returned[1].ok /\ Unwrap(returned[1]) = aggregated_data
    /\ ~Done => CanStep

IsVerifyFailure(entry) ==
    entry.message = <<"Signature/identity verification failed for URI '", entry.uri,
                      "' with expected identity '", "alice@x", "'">>
IsFetchFailure(entry) ==
    entry.message = <<"Failed to fetch manifest text from URI '", entry.uri, "'">>

C6_Witness ==
    /\ Done
    /\ returned[1].ok
    /\ Len(ComponentErrors) = 1 /\ IsFetchFailure(ComponentErrors[1])
    /\ Len(Components) = 1
    /\ Len(Components[1].release_errors) = 2
    /\ IsVerifyFailure(Components[1].release_errors[1])
    /\ SubSeq(Components[1].release_errors[2].message, 1, 2) =
         <<"Expected Release predicate, found ", "Unknown">>

(***************************************************************************)
(* C7: when processing of a catalog component fails, exactly one           *)
(* componentErrors entry keyed by that component's URI is recorded and the *)
(* loop goes on to the next entry, so that every entry of the catalog ends *)
(* as one aggregated component or one componentErrors entry; likewise a    *)
(* failing release attestation records one releaseErrors entry on its      *)
(* component and the later release attestations are still processed.       *)
(***************************************************************************)
CountUri(uris, n, u) == Cardinality({k \in 1..n : uris[k] = u})

\* the release links of the k-th aggregated component that are dealt with
ReleasesDone(k) ==
    IF k > Len(Components)
    THEN Min(ri - 1, Len(Component.links))
    ELSE Len(Components[k].component_predicate[1].links)

EveryEntryAccounted ==
    /\ HasCatalog =>
         /\ EntriesDone = Len(Components) + Len(ComponentErrors)
         /\ \A u \in Uris :
              CountUri(UrisOf(Catalog.links), EntriesDone, u)
                = Occurrences(UrisOf(ComponentErrors), u)
                  + Occurrences([k \in DOMAIN Components |->
                                   Components[k].component_link_uri], u)
    /\ \A k \in DOMAIN AllComponents :
         LET c == AllComponents[k]
             links == UrisOf(c.component_predicate[1].links)
         IN  /\ ReleasesDone(k) = Len(c.releases) + Len(c.release_errors)
             /\ \A u \in Uris :
                  CountUri(links, ReleasesDone(k), u)
                    = Occurrences(UrisOf(c.release_errors), u)
                      + Occurrences([j \in DOMAIN c.releases |->
                                       c.releases[j].release_link_uri], u)
    /\ Done /\ HasCatalog => EntriesDone = Len(Catalog.links)

\* the step in which a component or release fetch fails
FailureIsRecordedOnce ==
    /\ pc = "fetching" /\ call[1].depth = 1 /\ agg_comp_data' = None =>
         /\ aggregated_data'.component_errors =
              Append(ComponentErrors,
                     aggregated_data'.component_errors[Len(ComponentErrors) + 1])
         /\ aggregated_data'.component_errors[Len(ComponentErrors) + 1].uri = call[1].uri
         /\ aggregated_data'.components = Components
         /\ ci' = ci + 1
         /\ pc' = "components"
    /\ pc = "fetching" /\ call[1].depth = 2
         /\ agg_comp_data'[1].releases = agg_comp_data[1].releases =>
         /\ agg_comp_data'[1].release_errors =
              Append(agg_comp_data[1].release_errors,
                     agg_comp_data'[1].release_errors[
                         Len(agg_comp_data[1].release_errors) + 1])
         /\ agg_comp_data'[1].release_errors[
                Len(agg_comp_data[1].release_errors) + 1].uri = call[1].uri
         /\ ri' = ri + 1
         /\ pc' = "releases"

C7_FailureDoesNotStopLoop == []EveryEntryAccounted /\ [][FailureIsRecordedOnce]_vars

C7_Witness ==
    /\ Done
    /\ HasCatalog
    /\ Len(Catalog.links) = 2
    /\ ComponentErrors = <<ErrorEntry(Catalog.links[1].uri,
            <<"Signature/identity verification failed for URI '", Catalog.links[1].uri,
              "' with expected identity '", "alice@x", "'">>)>>
    /\ Len(Components) = 1
    /\ Components[1].component_link_uri = Catalog.links[2].uri
    /\ Len(Components[1].release_errors) = 1
    /\ IsFetchFailure(Components[1].release_errors[1])
    /\ Len(Components[1].releases) = 1
    /\ Components[1].release_errors[1].uri = Components[1].component_predicate[1].links[1].uri
    /\ Components[1].releases[1].release_link_uri =
         Components[1].component_predicate[1].links[2].uri

(***************************************************************************)
(* C8 (as stated): if the root manifest verifies but its predicate is not  *)
(* Catalog, rootError is "Expected Catalog predicate at root URI           *)
(* '<rootUri>', found <variant>", catalogPredicate is absent, components   *)
(* and componentErrors are empty and no URI other than the root is fetched.*)
(***************************************************************************)
RootIsNotCatalog ==
    /\ last_result # None
    /\ last_result[1].depth = 0
    /\ last_result[1].ok
    /\ last_result[1].kind # "Catalog"

NothingBeyondRoot ==
    /\ aggregated_data.catalog_predicate = None
    /\ Components = <<>>
    /\ ComponentErrors = <<>>
    /\ requests = <<root_uri>>
    /\ visited_uris = {root_uri}
    /\ pc \in {"return", "done"}

C8_Original ==
    RootIsNotCatalog =>
      /\ aggregated_data.root_error # None
      /\ SubSeq(aggregated_data.root_error[1], 1, 4) =
           <<"Expected Catalog predicate at root URI '", root_uri, "', found ",
             last_result[1].kind>>
      /\ NothingBeyondRoot

(***************************************************************************)
(* C8 (amended): in that case rootError is "Expected Catalog predicate at  *)
(* root URI '<rootUri>', but found " followed by the Debug rendering of    *)
(* the predicate, which starts with the variant's name; catalogPredicate   *)
(* is absent, components and componentErrors are empty and no URI other    *)
(* than the root is fetched.                                               *)
(***************************************************************************)
C8_RootNotCatalog ==
    RootIsNotCatalog =>
      /\ aggregated_data.root_error # None
      /\ Len(aggregated_data.root_error[1]) > 4
      /\ SubSeq(aggregated_data.root_error[1], 1, 4) =
           <<"Expected Catalog predicate at root URI '", root_uri, "', but found ",
             last_result[1].kind>>
      /\ NothingBeyondRoot

C8_Witness ==
    /\ Done
    /\ RootIsNotCatalog
    /\ last_result[1].kind = "Component"
    /\ aggregated_data.root_error =
         Some(<<"Expected Catalog predicate at root URI '", "u0", "', but found ",
                "Component", "(", "u3", "alice@x", ")">>)

(***************************************************************************)
(* C9: manifests are fetched in declaration order, depth-first: the root,  *)
(* then for each catalog entry in order the component followed by its      *)
(* release attestations in declared order; the aggregated output keeps the *)
(* order: the URIs of components (and of componentErrors) are a            *)
(* subsequence of the catalog's component URIs, and each component's       *)
(* release URIs (and releaseErrors URIs) are a subsequence of its          *)
(* releaseAttestations.                                                    *)
(***************************************************************************)
RECURSIVE IsSubseq(_, _)
IsSubseq(a, b) ==
    IF a = <<>> THEN TRUE
    ELSE IF b = <<>> THEN FALSE
    ELSE IF Head(a) = Head(b) THEN IsSubseq(Tail(a), Tail(b))
    ELSE IsSubseq(a, Tail(b))

\* seq without the repetitions of an element already met
RECURSIVE FirstOccurrences(_)
FirstOccurrences(seq) ==
    IF seq = <<>> THEN <<>>
    ELSE LET front == FirstOccurrences(SubSeq(seq, 1, Len(seq) - 1))
         IN  IF seq[Len(seq)] \in Range(front) THEN front
             ELSE Append(front, seq[Len(seq)])

\* the release links declared by the component aggregated for link u
DeclaredUnder(u) ==
    LET ks == {k \in DOMAIN AllComponents : AllComponents[k].component_link_uri = u}
    IN  IF ks = {} THEN <<>>
        ELSE UrisOf(AllComponents[CHOOSE k \in ks : TRUE].component_predicate[1].links)

RECURSIVE WalkOrder(_)
WalkOrder(i) ==
    IF i > Len(Catalog.links) THEN <<>>
    ELSE <<Catalog.links[i].uri>> \o DeclaredUnder(Catalog.links[i].uri)
         \o WalkOrder(i + 1)

C9_DeclarationOrder ==
    /\ Done /\ HasCatalog =>
         requests = FirstOccurrences(<<root_uri>> \o WalkOrder(1))
    /\ HasCatalog =>
         /\ IsSubseq([k \in DOMAIN AllComponents |-> AllComponents[k].component_link_uri],
                     UrisOf(Catalog.links))
         /\ IsSubseq(UrisOf(ComponentErrors), UrisOf(Catalog.links))
    /\ \A k \in DOMAIN AllComponents :
         LET c == AllComponents[k]
             links == UrisOf(c.component_predicate[1].links)
         IN  /\ IsSubseq([j \in DOMAIN c.releases |-> c.releases[j].release_link_uri],
                         links)
             /\ IsSubseq(UrisOf(c.release_errors), links)

C9_Witness ==
    /\ Done
    /\ HasCatalog
    /\ UrisOf(Catalog.links) = <<"u1", "u2">>
    /\ Len(Components) = 2
    /\ UrisOf(Components[1].component_predicate[1].links) = <<"u3", "u4">>
    /\ UrisOf(Components[2].component_predicate[1].links) = <<"u4", "u1">>
    /\ requests = <<"u0", "u1", "u3", "u4", "u2">>
    /\ Len(Components[1].releases) = 1

(***************************************************************************)
(* C10: verify_signature_with_pae(bundle, expectedIdentity) returns a      *)
(* payload if and only if the bundle decodes, signatures[0] verifies over  *)
(* PAE(payloadType, decodedPayload) under the leaf certificate's key, and  *)
(* the certificate identity matches expectedIdentity; the bytes returned   *)
(* are exactly the base64-decoded dsseEnvelope.payload; when the leaf has  *)
(* only bob@x and alice@x is expected, an error and no payload is returned.*)
(***************************************************************************)
BundleDecodes(b) ==
    /\ b.json_ok
    /\ Len(b.signatures) >= 1
    /\ b.signatures[1].b64
    /\ b.payload.b64
    /\ b.raw_bytes.b64
    /\ b.raw_bytes.data.x509_ok

SignatureVerifies(b) ==
    b.signatures[1].data =
        Sign(b.raw_bytes.data.public_key, DssePae(b.payload_type, b.payload.data))

IdentityMatches(cert, expected) ==
    /\ cert.san # None
    /\ cert.san[1].san_ok
    /\ \E i \in DOMAIN cert.san[1].general_names :
         /\ cert.san[1].general_names[i].type = "RFC822Name"
         /\ to_ascii_lowercase(cert.san[1].general_names[i].value)
              = to_ascii_lowercase(expected)

C10_VerifyReturnsPayloadIff ==
    vout # None =>
      LET b == vin[1].bundle_json_text
          expected == vin[1].expected_identity
          r == vout[1]
      IN  /\ r.ok <=> /\ BundleDecodes(b)
                      /\ SignatureVerifies(b)
                      /\ IdentityMatches(b.raw_bytes.data, expected)
          /\ r.ok => Unwrap(r) = b.payload.data
          /\ ~r.ok => r.val = <<>> /\ r.chain # <<>>
          /\ (/\ BundleDecodes(b)
              /\ b.raw_bytes.data.san = Some([san_ok |-> TRUE,
                                              general_names |-> <<RFC822Name("bob@x")>>])
              /\ expected = "alice@x") => ~r.ok

C10_Witness ==
    /\ vout # None
    /\ vout[1].ok
    /\ Unwrap(vout[1]) = ReleaseStatement
    /\ vin[1].expected_identity = "ALICE@x"
    /\ vin[1].bundle_json_text.raw_bytes.data.san[1].general_names
         = <<RFC822Name("bob@x"), RFC822Name("alice@x")>>
    /\ Len(vin[1].bundle_json_text.signatures) = 2

(***************************************************************************)
(* C11: every predicate stored in the aggregated result came from a        *)
(* manifest verified against the expectedSignerIdentity of the link that   *)
(* pointed to it (the root: the root identity; a component: its catalog    *)
(* entry's link; a release: its releaseAttestations link): in the step     *)
(* that stores a predicate, the manifest's certificate has an RFC822 SAN   *)
(* equal to that identity ignoring ASCII case.  A manifest whose           *)
(* certificate does not carry the identity never contributes a predicate.  *)
(***************************************************************************)
\* the predicates the aggregated result holds
StoredPredicates ==
    (IF HasCatalog THEN {Catalog} ELSE {})
    \cup {AllComponents[k].component_predicate[1] : k \in DOMAIN AllComponents}
    \cup UNION {{AllComponents[k].releases[j].release_predicate[1] :
                    j \in DOMAIN AllComponents[k].releases} : k \in DOMAIN AllComponents}

CarriesIdentity(general_names, identity) ==
    \E i \in DOMAIN general_names :
        /\ general_names[i].type = "RFC822Name"
        /\ to_ascii_lowercase(general_names[i].value) = to_ascii_lowercase(identity)

\* the identity named by the link the call in flight was reached through
PointingIdentity ==
    CASE call[1].depth = 0 -> root_identity
      [] call[1].depth = 1 -> Catalog.links[ci].expected_signer_identity
      [] OTHER -> Component.links[ri].expected_signer_identity

StoredOnlyIfVerifiedForLink ==
    (\/ aggregated_data'.catalog_predicate # aggregated_data.catalog_predicate
     \/ agg_comp_data = None /\ agg_comp_data' # None
     \/ /\ agg_comp_data # None /\ agg_comp_data' # None
        /\ agg_comp_data'[1].releases # agg_comp_data[1].releases)
    => /\ pc = "fetching"
       /\ last_result'[1].ok
       /\ last_result'[1].uri = call[1].uri
       /\ last_result'[1].expected = PointingIdentity
       /\ CarriesIdentity(last_result'[1].names, PointingIdentity)

C11_VerifiedAgainstLinkIdentity == [][StoredOnlyIfVerifiedForLink]_vars

C11_Witness ==
    /\ Done
    /\ root_identity = "ALICE@x"
    /\ HasCatalog
    /\ Catalog.links[1] = LinkTo("v1", "bob@x")
    /\ Len(Components) = 1
    /\ Components[1].component_predicate[1].links = <<LinkTo("v3", "alice@x")>>
    /\ Len(Components[1].releases) = 1
    /\ last_result[1].names = <<RFC822Name("bob@x"), RFC822Name("Alice@X")>>
    /\ last_result[1].expected = "alice@x"
    /\ Cardinality(StoredPredicates) = 3

(***************************************************************************)
(* C12: the certificate identity check succeeds if and only if at least    *)
(* one RFC822Name SAN entry equals the expected identity under ASCII       *)
(* case-insensitive comparison (alice@Example.COM matches                  *)
(* ALICE@example.com); SAN entries of other types (URI, DNS) never make it *)
(* succeed, even when their value equals the expected identity.            *)
(***************************************************************************)
\* the SAN entries a certificate shows to the check
ReadableNames(cert) ==
    IF cert.x509_ok /\ cert.san # None /\ cert.san[1].san_ok
    THEN cert.san[1].general_names
    ELSE <<>>

C12_SucceedsIffRfc822Match ==
    vout # None =>
      LET names == ReadableNames(vin[1].cert_der_bytes)
          expected == vin[1].expected_identity
      IN  /\ vout[1].ok <=> CarriesIdentity(names, expected)
          /\ (\A i \in DOMAIN names : names[i].type # "RFC822Name") => ~vout[1].ok

C12_Witness ==
    /\ vout # None
    /\ vout[1].ok
    /\ vin[1].expected_identity = "ALICE@example.com"
    /\ vin[1].cert_der_bytes.san[1].general_names =
         <<[type |-> "DNSName", value |-> "alice@x"],
           RFC822Name("alice@Example.COM")>>

(***************************************************************************)
(* C13 (as stated): the identity check fails with IdentityMismatch when    *)
(* the certificate has a SAN extension but no entry matches, and with      *)
(* MalformedCertificate, a distinct error, when the certificate fails to   *)
(* parse or its SAN extension is absent or unparseable.                    *)
(***************************************************************************)
IdentityMismatch(expected) ==
    <<<<"Expected identity '", expected, "' not found in certificate SAN">>>>
MalformedCertificate == <<<<"Failed to parse X.509 certificate from DER: ">>>>

SanReadable(cert) == cert.san # None /\ cert.san[1].san_ok

C13_Original ==
    vout # None /\ ~vout[1].ok =>
      LET cert == vin[1].cert_der_bytes
      IN  IF cert.x509_ok /\ SanReadable(cert)
          THEN vout[1].chain = IdentityMismatch(vin[1].expected_identity)
          ELSE vout[1].chain = MalformedCertificate

(***************************************************************************)
(* C13 (amended): the identity check fails with the "Expected identity     *)
(* '<expected>' not found in certificate SAN" error whenever the           *)
(* certificate parses and no RFC822 entry matches, which includes a SAN    *)
(* extension that is absent or unparseable; only a certificate that fails  *)
(* to parse gives the distinct "Failed to parse X.509 certificate" error.  *)
(***************************************************************************)
C13_FailureKinds ==
    vout # None =>
      LET cert == vin[1].cert_der_bytes
      IN  /\ ~cert.x509_ok => ~vout[1].ok /\ vout[1].chain = MalformedCertificate
          /\ cert.x509_ok /\ ~vout[1].ok =>
               vout[1].chain = IdentityMismatch(vin[1].expected_identity)
          /\ cert.x509_ok /\ ~SanReadable(cert) =>
               ~vout[1].ok /\ vout[1].chain = IdentityMismatch(vin[1].expected_identity)
          /\ MalformedCertificate # IdentityMismatch(vin[1].expected_identity)

C13_Witness ==
    /\ vout # None
    /\ vin[1].cert_der_bytes.x509_ok
    /\ vin[1].cert_der_bytes.san = None
    /\ vin[1].expected_identity = "alice@x"
    /\ vout[1] = Err(<<"Expected identity '", "alice@x", "' not found in certificate SAN">>)

(***************************************************************************)
(* C14 (as stated): for a bundle that otherwise verifies, changing any     *)
(* single byte of signatures[0].sig, payload or payloadType makes          *)
(* verify_signature_with_pae fail with the SignatureInvalid error and      *)
(* return no payload.                                                      *)
(***************************************************************************)
SignatureInvalid == <<"Signature verification failed using verify_blob with PAE data">>

VerifiedBeforeChange ==
    verify_signature_with_pae(vin[1].original, vin[1].expected_identity).ok

C14_Original ==
    vout # None /\ VerifiedBeforeChange =>
      /\ ~vout[1].ok
      /\ vout[1].val = None
      /\ to_string(vout[1]) = SignatureInvalid

(***************************************************************************)
(* C14 (amended): for a bundle that otherwise verifies, changing any       *)
(* single byte of signatures[0].sig, payload or payloadType makes          *)
(* verify_signature_with_pae fail and return no payload.  The error is the *)
(* signature verification error, except when the change leaves a payload   *)
(* that is not base64 any more: then it is "Failed to decode               *)
(* dsseEnvelope.payload".                                                  *)
(***************************************************************************)
C14_TamperFails ==
    vout # None /\ VerifiedBeforeChange =>
      /\ ~vout[1].ok
      /\ vout[1].val = None
      /\ to_string(vout[1]) =
           IF vin[1].field = "payload" /\ ~vin[1].bundle_json_text.payload.b64
           THEN <<"Failed to decode dsseEnvelope.payload">>
           ELSE SignatureInvalid

C14_Witness ==
    /\ vout # None
    /\ VerifiedBeforeChange
    /\ vin[1].field = "payload"
    /\ vin[1].bundle_json_text.payload.b64
    /\ vin[1].bundle_json_text.payload.data # vin[1].original.payload.data
    /\ to_string(vout[1]) = SignatureInvalid

(***************************************************************************)
(* C15: for every payload type T and payload P, construct_pae(T, P) is the *)
(* concatenation "DSSEv1 " ++ decimal(byteLen(T)) ++ " " ++ T ++ " " ++    *)
(* decimal(byteLen(P)) ++ " " ++ P with no trailing newline, so its length *)
(* is the header length plus len(P), also for empty T or empty P.          *)
(***************************************************************************)
\* ASCII decimal of a length below 100, written out
AsciiDecimal(n) ==
    LET digits == <<"0", "1", "2", "3", "4", "5", "6", "7", "8", "9">>
    IN  IF n <= 9 THEN <<digits[n + 1]>>
        ELSE <<digits[(n \div 10) + 1], digits[(n % 10) + 1]>>

C15_PaeExact ==
    vout # None =>
      LET T == vin[1].payload_type
          P == vin[1].payload
          header == <<"D", "S", "S", "E", "v", "1", " ">> \o AsciiDecimal(Len(T))
                      \o <<" ">> \o T \o <<" ">> \o AsciiDecimal(Len(P)) \o <<" ">>
      IN  /\ vout[1] = header \o P
          /\ Len(vout[1]) = Len(header) + Len(P)
          /\ Len(header) = 7 + (IF Len(T) <= 9 THEN 1 ELSE 2) + 1 + Len(T) + 1
                             + (IF Len(P) <= 9 THEN 1 ELSE 2) + 1
          /\ SubSeq(vout[1], Len(vout[1]) - Len(P) + 1, Len(vout[1])) = P

C15_Witness ==
    /\ vout # None
    /\ vin[1].payload = <<>>
    /\ vin[1].payload_type = [i \in 1..10 |-> " "]
    /\ vout[1] = <<"D", "S", "S", "E", "v", "1", " ", "1", "0", " ",
                   " ", " ", " ", " ", " ", " ", " ", " ", " ", " ",
                   " ", "0", " ">>

(***************************************************************************)
(* C16: parse_predicate returns the Catalog, Component or Release variant  *)
(* exactly when predicateType is the corresponding chainsights.rest v1 URI *)
(* and the predicate value satisfies that schema; for every other          *)
(* predicateType it returns Unknown carrying the type string and the       *)
(* original value verbatim, never an error; it returns an error only when  *)
(* the type is one of the three known URIs and the value fails the schema. *)
(***************************************************************************)
KnownTypes ==
    {[uri |-> "https://chainsights.rest/catalog/v1", kind |-> "Catalog"],
     [uri |-> "https://chainsights.rest/component/v1", kind |-> "Component"],
     [uri |-> "https://chainsights.rest/release/v1", kind |-> "Release"]}

SatisfiesSchema(kind, value) ==
    IF kind = "Release" THEN ReleaseOk(value) ELSE LinkListOk(value)

C16_ParsePredicate ==
    vout # None =>
      LET type == vin[1].predicate_type
          value == vin[1].predicate
          r == vout[1]
          known == {k \in KnownTypes : k.uri = type}
      IN  /\ \A k \in KnownTypes :
                (r.ok /\ Unwrap(r).kind = k.kind)
                  <=> (type = k.uri /\ SatisfiesSchema(k.kind, value))
          /\ known = {} =>
                /\ r.ok
                /\ Unwrap(r).kind = "Unknown"
                /\ Unwrap(r).predicate_type = type
                /\ Unwrap(r).predicate_value = value
          /\ ~r.ok <=> \E k \in known : ~SatisfiesSchema(k.kind, value)
          /\ ~r.ok => to_string(r) = <<"Failed to parse predicate as ", type>>
          /\ r.ok /\ Unwrap(r).kind \in {"Catalog", "Component"} =>
                TokensOf(Unwrap(r).links) \o Unwrap(r).sub_links = value

C16_Witness ==
    /\ vout # None
    /\ vin[1].predicate_type = "https://chainsights.rest/Catalog/v1"
    /\ vin[1].predicate = <<"!">>
    /\ vout[1] = Ok(Predicate("Unknown", <<>>, None,
                              "https://chainsights.rest/Catalog/v1", <<"!">>))

(***************************************************************************)
(* C17: when a verified manifest at component level yields a variant other *)
(* than Component, the traversal records a componentErrors entry "Expected *)
(* Component predicate, found ..." for that URI, creates no                *)
(* AggregatedComponent and follows none of the manifest's links; when a    *)
(* manifest at release level yields a variant other than Release, it       *)
(* records a releaseErrors entry on the enclosing component and adds no    *)
(* AggregatedRelease.  In both cases the traversal continues.              *)
(***************************************************************************)
UnexpectedKindRecorded ==
    /\ (/\ pc = "fetching"
        /\ last_result'[1].ok
        /\ last_result'[1].depth = 1
        /\ last_result'[1].kind # "Component") =>
         LET errors == aggregated_data'.component_errors
         IN  /\ Len(errors) = Len(ComponentErrors) + 1
             /\ SubSeq(errors, 1, Len(ComponentErrors)) = ComponentErrors
             /\ errors[Len(errors)].uri = call[1].uri
             /\ SubSeq(errors[Len(errors)].message, 1, 2) =
                  <<"Expected Component predicate, found ", last_result'[1].kind>>
             /\ aggregated_data'.components = Components
             /\ agg_comp_data' = None
             /\ ci' = ci + 1
             /\ pc' = "components"
    /\ (/\ pc = "fetching"
        /\ last_result'[1].ok
        /\ last_result'[1].depth = 2
        /\ last_result'[1].kind # "Release") =>
         LET errors == agg_comp_data'[1].release_errors
             before == agg_comp_data[1].release_errors
         IN  /\ Len(errors) = Len(before) + 1
             /\ SubSeq(errors, 1, Len(before)) = before
             /\ errors[Len(errors)].uri = call[1].uri
             /\ SubSeq(errors[Len(errors)].message, 1, 2) =
                  <<"Expected Release predicate, found ", last_result'[1].kind>>
             /\ agg_comp_data'[1].releases = agg_comp_data[1].releases
             /\ aggregated_data' = aggregated_data
             /\ ri' = ri + 1
             /\ pc' = "releases"

\* a URI is only requested as the root, as a catalog entry or as a release
\* link of an aggregated component
OnlyDeclaredLinksFollowed ==
    Range(requests) \subseteq
        {root_uri}
        \cup (IF HasCatalog THEN Range(UrisOf(Catalog.links)) ELSE {})
        \cup UNION {Range(UrisOf(AllComponents[k].component_predicate[1].links)) :
                       k \in DOMAIN AllComponents}

C17_UnexpectedKind == []OnlyDeclaredLinksFollowed /\ [][UnexpectedKindRecorded]_vars

C17_Witness ==
    /\ Done
    /\ HasCatalog
    /\ UrisOf(Catalog.links) = <<"u1", "u2">>
    /\ Len(ComponentErrors) = 1
    /\ ComponentErrors[1].uri = "u1"
    /\ SubSeq(ComponentErrors[1].message, 1, 2) =
         <<"Expected Component predicate, found ", "Release">>
    /\ Len(Components) = 1
    /\ UrisOf(Components[1].component_predicate[1].links) = <<"u3", "u4">>
    /\ Len(Components[1].release_errors) = 1
    /\ SubSeq(Components[1].release_errors[1].message, 1, 2) =
         <<"Expected Release predicate, found ", "Component">>
    /\ Len(Components[1].releases) = 1
    /\ requests = <<"u0", "u1", "u2", "u3", "u4">>

(***************************************************************************)
(* One call of fetch_and_verify_artifact on every link and exchange of     *)
(* ArtifactInputs.                                                         *)
(***************************************************************************)
ArtifactBodies == {"", "body0", "body1"}

ExpectedDigests ==
    {"", "3a7f", "3A7F", "3a7F", "9c0e", "9C0E", "e3b0", "3a7", "sha256:3a7f",
     "SHA256:3A7F"}

DigestMaps ==
    {<<>>} \cup {[k \in {"sha256"} |-> e] : e \in ExpectedDigests}
           \cup {[k \in {"sha512"} |-> e] : e \in {"", "3a7f"}}
           \cup {[k \in {"SHA256"} |-> e] : e \in {"", "9c0e"}}
           \cup {[k \in {"sha256", "sha512"} |-> IF k = "sha256" THEN e ELSE "9c0e"] :
                    e \in {"", "3a7f"}}

ArtifactLinks ==
    {[uri |-> "a0", digest |-> d] : d \in {None} \cup {Some(m) : m \in DigestMaps}}

ArtifactResponses ==
    {[send_ok |-> FALSE, status |-> 200, bytes_ok |-> FALSE, body |-> ""]}
    \cup {[send_ok |-> TRUE, status |-> st, bytes_ok |-> FALSE, body |-> ""] :
             st \in {200}}
    \cup {[send_ok |-> TRUE, status |-> st, bytes_ok |-> TRUE, body |-> b] :
             st \in {200, 204, 304, 404, 500}, b \in ArtifactBodies}

ArtifactInputs ==
    {[link |-> l, response |-> r] : l \in ArtifactLinks, r \in ArtifactResponses}

ArtifactInit ==
    /\ TravInit
    /\ max_depth = MAX_DEPTH
    /\ vin \in {Some(i) : i \in ArtifactInputs}
    /\ vout = None

\* fetch.rs:57: the call
FetchArtifact ==
    /\ vin # None
    /\ vout = None
    /\ vout' = Some(fetch_and_verify_artifact(vin[1].link, vin[1].response))
    /\ UNCHANGED <<root_uri, root_identity, max_depth, visited_uris, aggregated_data,
                   agg_comp_data, ci, ri, call, pc, requests, returned, last_result, vin>>

ArtifactNext == FetchArtifact

SpecArtifact == ArtifactInit /\ [][ArtifactNext]_vars

\* the body of the exchange was received
BodyFetched ==
    /\ vin[1].response.send_ok
    /\ vin[1].response.status \in 200..299
    /\ vin[1].response.bytes_ok

HasSha256 == vin[1].link.digest # None /\ "sha256" \in DOMAIN vin[1].link.digest[1]

ExpectedSha256 == vin[1].link.digest[1]["sha256"]

\* lowercase hex SHA-256 of the body of the exchange
ComputedSha256 == hex_encode(Sha256(vin[1].response.body))

DigestMismatch ==
    /\ ~vout[1].ok
    /\ vout[1].val = None
    /\ to_string(vout[1]) = <<"Digest mismatch for URI '", vin[1].link.uri,
                              "'. Expected sha256: ", ExpectedSha256,
                              ", Calculated: ", ComputedSha256>>

MalformedLink ==
    /\ ~vout[1].ok
    /\ vout[1].val = None
    /\ to_string(vout[1]) = <<"Empty expected sha256 digest provided for URI '",
                              vin[1].link.uri, "'">>

(***************************************************************************)
(* C18: for a link whose digest map has a sha256 entry,                    *)
(* fetch_and_verify_artifact returns the body bytes only if the entry is   *)
(* non-empty and equals the hex SHA-256 of the body compared without       *)
(* regard to case; on a received body a differing entry gives a digest     *)
(* mismatch error naming the expected and the computed value, an empty     *)
(* entry gives the empty-digest error, and neither error carries bytes.    *)
(***************************************************************************)
C18_DigestChecked ==
    (vout # None /\ HasSha256) =>
        /\ vout[1].ok =>
             /\ vout[1].val = Some(vin[1].response.body)
             /\ BodyFetched
             /\ ExpectedSha256 # ""
             /\ to_ascii_lowercase(ExpectedSha256) = ComputedSha256
        /\ (BodyFetched /\ ExpectedSha256 # ""
              /\ to_ascii_lowercase(ExpectedSha256) = ComputedSha256) => vout[1].ok
        /\ (BodyFetched /\ ExpectedSha256 # ""
              /\ to_ascii_lowercase(ExpectedSha256) # ComputedSha256) => DigestMismatch
        /\ (BodyFetched /\ ExpectedSha256 = "") => MalformedLink

\* body1 differs from body0 in one bit and is served for a link that names
\* the digest of body0 in upper case
C18_Witness ==
    /\ vout # None
    /\ HasSha256
    /\ ExpectedSha256 = "3A7F"
    /\ vin[1].response.body = "body1"
    /\ vin[1].response.status = 200
    /\ DigestMismatch

(***************************************************************************)
(* One call of fetch_manifest_text on every exchange of ManifestResponses. *)
(* reqwest::get follows a redirect that names a Location and hands back    *)
(* every other response, so a 300 arrives with its body; a 304 carries no  *)
(* body.                                                                   *)
(***************************************************************************)
ManifestLines ==
    {EmptyLine,
     [lead |-> 2, text |-> None, trail |-> 0],
     [lead |-> 1, text |-> Some("l1"), trail |-> 1],
     [lead |-> 0, text |-> Some("l2"), trail |-> 0]}

ManifestBodies ==
    {<<>>} \cup {<<a>> : a \in ManifestLines}
           \cup {<<a, b>> : a \in ManifestLines, b \in ManifestLines}
           \cup {<<a, b, c>> : a \in ManifestLines, b \in ManifestLines,
                               c \in ManifestLines}

ManifestResponses ==
    {[net_ok |-> FALSE, status |-> 0, lines |-> <<>>],
     [net_ok |-> TRUE, status |-> 304, lines |-> <<>>]}
    \cup {[net_ok |-> TRUE, status |-> st, lines |-> b] :
             st \in {200, 204, 300, 404, 500}, b \in ManifestBodies}

ManifestInit ==
    /\ TravInit
    /\ max_depth = MAX_DEPTH
    /\ vin \in {Some(r) : r \in ManifestResponses}
    /\ vout = None

\* fetch.rs:10: the call
FetchManifestText ==
    /\ vin # None
    /\ vout = None
    /\ vout' = Some(fetch_manifest_text(vin[1]))
    /\ UNCHANGED <<root_uri, root_identity, max_depth, visited_uris, aggregated_data,
                   agg_comp_data, ci, ri, call, pc, requests, returned, last_result, vin>>

ManifestNext == FetchManifestText

SpecManifest == ManifestInit /\ [][ManifestNext]_vars

\* a line that is empty or holds only whitespace
Blank(l) == l.text = None

NonBlankLines == {i \in DOMAIN vin[1].lines : ~Blank(vin[1].lines[i])}

ManifestEmpty ==
    /\ ~vout[1].ok
    /\ to_string(vout[1]) = <<"Fetched manifest is empty">>

\* what fetch_manifest_text does with the body of a response it accepts
FirstNonBlankLineReturned ==
    /\ NonBlankLines # {} =>
         LET first == CHOOSE i \in NonBlankLines : \A j \in NonBlankLines : i <= j
         IN  /\ vout[1].ok
             /\ Unwrap(vout[1]) = [lead |-> 0, text |-> vin[1].lines[first].text,
                                   trail |-> 0]
    /\ NonBlankLines = {} <=> ManifestEmpty

\* the part of the claim that holds: the body of every response with a
\* status outside 400..599 is treated this way, and 400..599 fail
FirstLineOfAcceptedBody ==
    (vout # None /\ vin[1].net_ok) =>
        IF vin[1].status \in 400..599
        THEN ~vout[1].ok /\ ~ManifestEmpty
        ELSE FirstNonBlankLineReturned

(***************************************************************************)
(* C19: fetch_manifest_text returns, for any 2xx body, the first line that *)
(* is non-empty after trimming whitespace, in trimmed form, ignoring all   *)
(* later lines and any blank lines before it; it fails with the            *)
(* empty-manifest error if and only if every line of the body is blank;    *)
(* any non-2xx status is a failure.                                        *)
(***************************************************************************)
C19_FirstLineOr2xxFailure ==
    (vout # None /\ vin[1].net_ok) =>
        IF vin[1].status \in 200..299
        THEN FirstNonBlankLineReturned
        ELSE ~vout[1].ok

\* a 300 response whose body has a manifest line after two blank ones
C19_Witness ==
    /\ vout # None
    /\ vin[1].net_ok
    /\ vin[1].status = 300
    /\ Len(vin[1].lines) = 3
    /\ NonBlankLines = {3}
    /\ vin[1].lines[3].lead = 1
    /\ vout[1].ok
    /\ Unwrap(vout[1]) = [lead |-> 0, text |-> Some("l1"), trail |-> 0]

(***************************************************************************)
(* main.rs: handle_commands_purl, the filtering of the aggregated data     *)
(* (lines 123-168).  PackageUrl::from_str is a table over the purl strings *)
(* the model uses.  The value returned stands for found_releases, which    *)
(* the command prints before it returns Ok(()).                            *)
(***************************************************************************)
PackageUrl_from_str(purl) ==
    CASE purl = "pkg:chainsights/example.com/core@1.2.0" ->
           Ok([ty |-> "chainsights", namespace |-> Some("example.com"),
               name |-> "core", version |-> Some("1.2.0")])
      [] purl = "pkg:chainsights/example.com/core@1.1.0" ->
           Ok([ty |-> "chainsights", namespace |-> Some("example.com"),
               name |-> "core", version |-> Some("1.1.0")])
      [] purl = "pkg:chainsights/example.com/core" ->
           Ok([ty |-> "chainsights", namespace |-> Some("example.com"),
               name |-> "core", version |-> None])
      [] OTHER -> Err(<<"purl parse error">>)

RECURSIVE FilterByVersion(_, _, _, _)
\* lines 137-150: the loop over comp_data.releases
FilterByVersion(releases, i, purl_version, found_releases) ==
    IF i > Len(releases) THEN Ok(found_releases)
    ELSE LET rel_data == releases[i]
         IN  IF rel_data.release_predicate = None
             THEN FilterByVersion(releases, i + 1, purl_version, found_releases)
             ELSE LET purl == WithContext(
                                PackageUrl_from_str(rel_data.release_predicate[1].purl),
                                <<"Failed to parse PURL from release predicate">>)
                  IN  IF ~purl.ok THEN purl
                      ELSE IF Unwrap(purl).version = None
                      THEN Err(<<"Expected version in purl">>)
                      ELSE FilterByVersion(
                               releases, i + 1, purl_version,
                               IF Unwrap(purl).version[1] = purl_version
                               THEN Append(found_releases, rel_data)
                               ELSE found_releases)

\* lines 131-158: the matching component
FilterComponent(comp_data, all_releases, purl_version_opt) ==
    IF all_releases THEN Ok(comp_data.releases)
    ELSE IF purl_version_opt # None
    THEN FilterByVersion(comp_data.releases, 1, purl_version_opt[1], <<>>)
    ELSE Ok(<<>>)

RECURSIVE FindComponent(_, _, _, _, _)
\* lines 126-161: the loop over aggregated_data.components, left at the
\* first component of that name
FindComponent(components, i, component_name, all_releases, purl_version_opt) ==
    IF i > Len(components) THEN Ok(<<>>)
    ELSE IF /\ components[i].component_predicate # None
            /\ components[i].component_predicate[1].name = component_name
    THEN FilterComponent(components[i], all_releases, purl_version_opt)
    ELSE FindComponent(components, i + 1, component_name, all_releases,
                       purl_version_opt)

handle_commands_purl(data, component_name, all_releases, purl_version_opt) ==
    IF data.catalog_predicate # None
    THEN FindComponent(data.components, 1, component_name, all_releases,
                       purl_version_opt)
    ELSE Ok(<<>>)

(***************************************************************************)
(* One call of the filtering on every aggregation of PurlInputs: an        *)
(* optional component of another name, a component "core" with up to       *)
(* MaxReleases releases, and an optional second component of that name.    *)
(***************************************************************************)
ReleasePurls ==
    {"pkg:chainsights/example.com/core@1.2.0",
     "pkg:chainsights/example.com/core@1.1.0",
     "pkg:chainsights/example.com/core",
     "core 1.2.0"}

PurlRelease(purl) ==
    [release_predicate |-> Some([purl |-> purl]), release_link_uri |-> "r"]

RECURSIVE SeqsUpTo(_, _)
SeqsUpTo(S, n) ==
    IF n = 0 THEN {<<>>}
    ELSE LET shorter == SeqsUpTo(S, n - 1)
         IN  shorter \cup {Append(q, x) : q \in shorter, x \in S}

PurlComponent(name, uri, releases) ==
    [component_predicate |-> Some([name |-> name]), releases |-> releases,
     component_link_uri |-> uri, release_errors |-> <<>>]

PurlComponentLists ==
    {before \o middle \o after :
        before \in {<<>>, <<PurlComponent("other", "c0",
                         <<PurlRelease("pkg:chainsights/example.com/core@1.2.0")>>)>>},
        middle \in {<<>>} \cup
                   {<<PurlComponent("core", "c1", rs)>> :
                       rs \in SeqsUpTo({PurlRelease(p) : p \in ReleasePurls}, MaxReleases)},
        after \in {<<>>, <<PurlComponent("core", "c2",
                         <<PurlRelease("pkg:chainsights/example.com/core@1.2.0")>>)>>}}

PurlAggregations ==
    {[catalog_predicate |-> None, components |-> <<>>,
      root_error |-> Some(<<"root failed">>), component_errors |-> <<>>]}
    \cup {[catalog_predicate |-> Some("catalog"), components |-> cs,
           root_error |-> None, component_errors |-> <<>>] : cs \in PurlComponentLists}

PurlInputs ==
    {[data |-> d, component_name |-> "core", all_releases |-> a,
      purl_version_opt |-> v] :
        d \in PurlAggregations, a \in BOOLEAN,
        v \in {None, Some("1.2.0"), Some("1.1.0")}}

PurlInit ==
    /\ TravInit
    /\ max_depth = MAX_DEPTH
    /\ vin \in {Some(i) : i \in PurlInputs}
    /\ vout = None

\* main.rs:123: the filtering
HandleCommandsPurl ==
    /\ vin # None
    /\ vout = None
    /\ vout' = Some(handle_commands_purl(vin[1].data, vin[1].component_name,
                                         vin[1].all_releases, vin[1].purl_version_opt))
    /\ UNCHANGED <<root_uri, root_identity, max_depth, visited_uris, aggregated_data,
                   agg_comp_data, ci, ri, call, pc, requests, returned, last_result, vin>>

PurlNext == HandleCommandsPurl

SpecPurl == PurlInit /\ [][PurlNext]_vars

\* positions of the components named by the PURL
MatchingComponents ==
    {i \in DOMAIN vin[1].data.components :
        vin[1].data.components[i].component_predicate[1].name = vin[1].component_name}

MatchedComponent ==
    vin[1].data.components[CHOOSE i \in MatchingComponents :
                               \A j \in MatchingComponents : i <= j]

\* the version a release's own purl parses to, None when it has none or
\* does not parse
VersionOf(rel_data) ==
    LET purl == PackageUrl_from_str(rel_data.release_predicate[1].purl)
    IN  IF purl.ok THEN Unwrap(purl).version ELSE None

VersionedFlow ==
    /\ vout # None
    /\ vin[1].purl_version_opt # None
    /\ ~vin[1].all_releases
    /\ vin[1].data.catalog_predicate # None
    /\ MatchingComponents # {}

SelectedExactlyByVersion ==
    /\ vout[1].ok
    /\ Unwrap(vout[1]) = SelectSeq(MatchedComponent.releases,
                                   LAMBDA r : VersionOf(r) = vin[1].purl_version_opt)

\* the part of the claim that holds: the selection is exact when every
\* release of the matched component has a purl with a version, and the
\* command fails otherwise
SelectedOrFailed ==
    VersionedFlow =>
        IF \A k \in DOMAIN MatchedComponent.releases :
               VersionOf(MatchedComponent.releases[k]) # None
        THEN SelectedExactlyByVersion
        ELSE ~vout[1].ok

(***************************************************************************)
(* C20: in the PURL flow with a versioned PURL and allReleases not set,    *)
(* the selected releases are exactly the releases of the matched component *)
(* whose own purl parses to a version equal to the PURL's version; every   *)
(* other release (different version, no version, purl that does not parse) *)
(* is excluded, and the command still completes successfully.              *)
(***************************************************************************)
C20_SelectedByVersion == VersionedFlow => SelectedExactlyByVersion

\* the matched component has the release asked for and one whose purl
\* carries no version
C20_Witness ==
    /\ VersionedFlow
    /\ vin[1].purl_version_opt = Some("1.2.0")
    /\ Len(MatchedComponent.releases) = 2
    /\ VersionOf(MatchedComponent.releases[1]) = Some("1.2.0")
    /\ MatchedComponent.releases[2].release_predicate[1].purl
         = "pkg:chainsights/example.com/core"
    /\ ~vout[1].ok
    /\ to_string(vout[1]) = <<"Expected version in purl">>

(***************************************************************************)
(* main.rs: handle_commands_purl, the fetching of artifacts (lines         *)
(* 193-234).  The job is kept in vout: selected holds the links whose      *)
(* media type was asked for, futures[i] is None while the i-th fetch is in *)
(* flight and Some(result) once it has completed, responses[i] the         *)
(* exchange it completed with, completed the order in which the fetches    *)
(* completed, fetch_results what join_all handed back, handled the lines   *)
(* printed by the loop over fetch_results.                                 *)
(***************************************************************************)
MaxFound == 3

SpdxLink ==
    [uri |-> "a0", digest |-> Some([k \in {"sha256"} |-> "3a7f"]),
     media_type |-> Some("application/spdx+json")]

SpdxLinkNoDigest ==
    [uri |-> "a1", digest |-> None, media_type |-> Some("application/spdx+json")]

OtherLink ==
    [uri |-> "a2", digest |-> None, media_type |-> Some("text/plain")]

UntypedLink == [uri |-> "a3", digest |-> None, media_type |-> None]

RECURSIVE SelectLinks(_, _, _)
\* lines 201-211: the links of one release with the media type asked for
SelectLinks(metadata_artifacts, i, media_type) ==
    IF i > Len(metadata_artifacts) THEN <<>>
    ELSE (IF metadata_artifacts[i].media_type = Some(media_type)
          THEN <<metadata_artifacts[i]>> ELSE <<>>)
         \o SelectLinks(metadata_artifacts, i + 1, media_type)

RECURSIVE SelectArtifacts(_, _, _)
\* lines 200-212: one future per such link of every release found
SelectArtifacts(found_releases, i, media_type) ==
    IF i > Len(found_releases) THEN <<>>
    ELSE SelectLinks(found_releases[i].metadata_artifacts, 1, media_type)
         \o SelectArtifacts(found_releases, i + 1, media_type)

\* lines 218-231: what the loop prints for one result
Printed(result) ==
    IF result.ok THEN <<"Fetched Artifact Content:", Unwrap(result)>>
    ELSE <<"Failed to fetch or verify artifact: ">> \o to_string(result)

JoinReleases ==
    {[metadata_artifacts |-> as] :
        as \in {<<OtherLink>>, <<SpdxLink, UntypedLink>>,
                <<OtherLink, SpdxLinkNoDigest>>}}

JoinInputs ==
    {[found_releases |-> rs, fetch_sbom_media_type |-> m] :
        rs \in SeqsUpTo(JoinReleases, MaxFound),
        m \in {None, Some("application/spdx+json")}}

\* what a server may answer: the body, another body, an error status, or
\* nothing at all
JoinResponses ==
    {[send_ok |-> TRUE, status |-> 200, bytes_ok |-> TRUE, body |-> "body0"],
     [send_ok |-> TRUE, status |-> 200, bytes_ok |-> TRUE, body |-> "body1"],
     [send_ok |-> TRUE, status |-> 404, bytes_ok |-> TRUE, body |-> ""],
     [send_ok |-> FALSE, status |-> 200, bytes_ok |-> FALSE, body |-> ""]}

JoinInit ==
    /\ TravInit
    /\ max_depth = MAX_DEPTH
    /\ vin \in {Some(i) : i \in JoinInputs}
    /\ vout = None

JoinFrame ==
    UNCHANGED <<root_uri, root_identity, max_depth, visited_uris, aggregated_data,
                agg_comp_data, ci, ri, call, pc, requests, returned, last_result, vin>>

\* lines 171, 193-214: nothing to fetch, or the futures are built and
\* join_all polls each of them once, which sends its request
JoinStart ==
    /\ vin # None
    /\ vout = None
    /\ LET selected ==
             IF vin[1].found_releases = <<>> \/ vin[1].fetch_sbom_media_type = None
             THEN <<>>
             ELSE SelectArtifacts(vin[1].found_releases, 1,
                                  vin[1].fetch_sbom_media_type[1])
           skipped == vin[1].found_releases = <<>> \/ vin[1].fetch_sbom_media_type = None
       IN  vout' = Some([phase |-> IF skipped THEN "printed" ELSE "joining",
                         selected |-> selected,
                         futures |-> [i \in DOMAIN selected |-> None],
                         responses |-> [i \in DOMAIN selected |-> None],
                         completed |-> <<>>,
                         fetch_results |-> <<>>,
                         handled |-> <<>>,
                         ret |-> None])
    /\ JoinFrame

\* as if the futures were joined by try_join_all: the first failure ends
\* the join and drops the fetches still in flight
FutureCompletesTryJoin(i) ==
    /\ vout # None
    /\ vout[1].phase = "joining"
    /\ i \in DOMAIN vout[1].futures
    /\ vout[1].futures[i] = None
    /\ \E response \in JoinResponses :
         LET result == fetch_and_verify_artifact(vout[1].selected[i], response)
         IN  vout' = IF result.ok
                     THEN Some([vout[1] EXCEPT !.futures[i] = Some(result),
                                               !.responses[i] = Some(response),
                                               !.completed = Append(@, i)])
                     ELSE Some([vout[1] EXCEPT !.futures[i] = Some(result),
                                               !.responses[i] = Some(response),
                                               !.completed = Append(@, i),
                                               !.fetch_results = <<result>>,
                                               !.phase = "handling"])
    /\ JoinFrame

\* line 208: the i-th fetch_and_verify_artifact completes, in any order
FutureCompletes(i) ==
    /\ vout # None
    /\ vout[1].phase = "joining"
    /\ i \in DOMAIN vout[1].futures
    /\ vout[1].futures[i] = None
    /\ \E response \in JoinResponses :
         vout' = Some([vout[1] EXCEPT
                          !.futures[i] = Some(fetch_and_verify_artifact(
                                                  vout[1].selected[i], response)),
                          !.responses[i] = Some(response),
                          !.completed = Append(@, i)])
    /\ JoinFrame

\* line 214: join_all is ready once every future is, with the results in
\* the order of the futures
JoinAllReady ==
    /\ vout # None
    /\ vout[1].phase = "joining"
    /\ \A i \in DOMAIN vout[1].futures : vout[1].futures[i] # None
    /\ vout' = Some([vout[1] EXCEPT
                        !.fetch_results = [i \in DOMAIN vout[1].futures |->
                                              vout[1].futures[i][1]],
                        !.phase = "handling"])
    /\ JoinFrame

\* lines 216-232: one turn of the loop over fetch_results
HandleResult ==
    /\ vout # None
    /\ vout[1].phase = "handling"
    /\ Len(vout[1].handled) < Len(vout[1].fetch_results)
    /\ vout' = Some([vout[1] EXCEPT
                        !.handled = Append(@, Printed(vout[1].fetch_results[
                                                         Len(vout[1].handled) + 1]))])
    /\ JoinFrame

\* line 232: the loop is over
HandledAll ==
    /\ vout # None
    /\ vout[1].phase = "handling"
    /\ Len(vout[1].handled) = Len(vout[1].fetch_results)
    /\ vout' = Some([vout[1] EXCEPT !.phase = "printed"])
    /\ JoinFrame

\* line 259: Ok(())
JoinReturn ==
    /\ vout # None
    /\ vout[1].phase = "printed"
    /\ vout' = Some([vout[1] EXCEPT !.phase = "returned", !.ret = Some(Ok(<<>>))])
    /\ JoinFrame

JoinNext ==
    \/ JoinStart
    \/ \E i \in 1..MaxFound : FutureCompletes(i)
    \/ JoinAllReady
    \/ HandleResult
    \/ HandledAll
    \/ JoinReturn

SpecJoin == JoinInit /\ [][JoinNext]_vars

\* the executor keeps polling the command's future, and every request is
\* answered or fails
FairSpecJoin == SpecJoin /\ WF_vars(JoinNext)

\* the links a fetch was asked for
SelectedLinks ==
    IF vin[1].found_releases = <<>> \/ vin[1].fetch_sbom_media_type = None
    THEN <<>>
    ELSE SelectArtifacts(vin[1].found_releases, 1, vin[1].fetch_sbom_media_type[1])

AllCompleted == \A i \in DOMAIN vout[1].futures : vout[1].futures[i] # None

\* the outcome of the i-th fetch is the one its own exchange gives
OwnOutcome(i) ==
    /\ vout[1].futures[i] # None
    /\ vout[1].responses[i] # None
    /\ vout[1].futures[i][1] =
         fetch_and_verify_artifact(SelectedLinks[i], vout[1].responses[i][1])

JoinedOutcomes ==
    vout # None =>
        /\ vout[1].selected = SelectedLinks
        /\ DOMAIN vout[1].futures = DOMAIN SelectedLinks
        /\ vout[1].phase # "joining" => AllCompleted
        /\ vout[1].handled # <<>> => AllCompleted
        /\ vout[1].phase # "joining" =>
             /\ Len(vout[1].fetch_results) = Len(SelectedLinks)
             /\ \A i \in DOMAIN SelectedLinks :
                  OwnOutcome(i) /\ vout[1].fetch_results[i] = vout[1].futures[i][1]
        /\ Len(vout[1].handled) <= Len(vout[1].fetch_results)
        /\ \A i \in DOMAIN vout[1].handled :
             vout[1].handled[i] = Printed(vout[1].fetch_results[i])
        /\ vout[1].phase \in {"printed", "returned"} =>
             Len(vout[1].handled) = Len(SelectedLinks)
        /\ vout[1].ret # None <=> vout[1].phase = "returned"
        /\ vout[1].ret # None => vout[1].ret[1].ok

ReturnedOk ==
    /\ vout # None
    /\ vout[1].phase = "returned"
    /\ vout[1].ret = Some(Ok(<<>>))

HangInit ==
    /\ root_uri = "w0"
    /\ root_identity = "alice@x"
    /\ visited_uris = {}
    /\ aggregated_data = AggregatedCatalogData_default
    /\ agg_comp_data = None
    /\ ci = 0
    /\ ri = 0
    /\ call = None
    /\ pc = "start"
    /\ requests = <<>>
    /\ returned = None
    /\ last_result = None
    /\ max_depth = MAX_DEPTH
    /\ vin = None
    /\ vout = None

SpecHang == HangInit /\ [][Next]_vars

FairSpecHang == SpecHang /\ WF_vars(Next)

\* a request is out and its server will never answer
WaitingOnSilentServer ==
    /\ pc = "fetching"
    /\ call # None
    /\ Served(call[1].uri) = {}

\* before it has returned the traversal always has a step to take
NeverStuck == ~Done => CanStep

(***************************************************************************)
(* C22: every HTTP request of the traversal is ended by a timeout, so      *)
(* traverse_and_aggregate eventually returns its aggregator even when a    *)
(* manifest server never responds, the aborted fetch being recorded as a   *)
(* per-node error.                                                         *)
(***************************************************************************)
C22_EventuallyReturns == <>(Done /\ returned # None /\ returned[1].ok)

\* the catalog is in, one component is aggregated, and the request to the
\* second component's server is never answered
C22_Witness ==
    /\ WaitingOnSilentServer
    /\ HasCatalog
    /\ Len(Components) = 1
    /\ call[1].uri = "w1"
    /\ call[1].depth = 1
    /\ returned = None

(***************************************************************************)
(* The traversal on the fourth site.                                       *)
(***************************************************************************)
SubLinkInit ==
    /\ root_uri = "x0"
    /\ root_identity = "alice@x"
    /\ visited_uris = {}
    /\ aggregated_data = AggregatedCatalogData_default
    /\ agg_comp_data = None
    /\ ci = 0
    /\ ri = 0
    /\ call = None
    /\ pc = "start"
    /\ requests = <<>>
    /\ returned = None
    /\ last_result = None
    /\ max_depth = MAX_DEPTH
    /\ vin = None
    /\ vout = None

SpecSubLinks == SubLinkInit /\ [][Next]_vars

\* the URIs the traversal is meant to follow: the root, the catalog's
\* component links and the release links of verified components
FollowedUris ==
    {root_uri}
    \cup (IF HasCatalog THEN Range(UrisOf(Catalog.links)) ELSE {})
    \cup UNION {Range(UrisOf(AllComponents[k].component_predicate[1].links)) :
                   k \in DOMAIN AllComponents}

\* the URIs named by optional fields of the predicates aggregated so far
OptionalUris ==
    (IF HasCatalog THEN Range(Catalog.sub_links) ELSE {})
    \cup UNION {Range(AllComponents[k].component_predicate[1].sub_links) :
                   k \in DOMAIN AllComponents}
    \cup UNION {UNION {Range(AllComponents[k].releases[r].metadata_artifacts) :
                          r \in DOMAIN AllComponents[k].releases} :
                   k \in DOMAIN AllComponents}

(***************************************************************************)
(* C23: the traversal fetches only the root URI, the component links of    *)
(* the root catalog and the release links of verified components; URIs     *)
(* that appear only in subCatalogs, subComponents, metadataLinks or        *)
(* artifacts are never fetched and never enter the visited set, and        *)
(* artifact_fetch_errors of every AggregatedRelease stays empty.           *)
(***************************************************************************)
C23_OnlyAttestationLinksFetched ==
    /\ Range(requests) \subseteq FollowedUris
    /\ visited_uris \subseteq FollowedUris
    /\ Range(requests) \cap SideOnlyUris = {}
    /\ visited_uris \cap SideOnlyUris = {}
    /\ \A u \in OptionalUris \ FollowedUris :
         u \notin visited_uris /\ u \notin Range(requests)
    /\ \A k \in DOMAIN AllComponents :
         \A r \in DOMAIN AllComponents[k].releases :
            AllComponents[k].releases[r].artifact_fetch_errors = <<>>

\* catalog, component and release each name x2 or x4 in an optional field
\* only, next to s1..s4
C23_Witness ==
    /\ Done
    /\ HasCatalog
    /\ UrisOf(Catalog.links) = <<"x1">>
    /\ "x2" \in Range(Catalog.sub_links)
    /\ Len(Components) = 1
    /\ UrisOf(Components[1].component_predicate[1].links) = <<"x3">>
    /\ "s2" \in Range(Components[1].component_predicate[1].sub_links)
    /\ Len(Components[1].releases) = 1
    /\ Components[1].releases[1].metadata_artifacts = <<"s3", "x4", "artifacts", "s4">>
    /\ requests = <<"x0", "x1", "x3">>
    /\ visited_uris = {"x0", "x1", "x3"}

(***************************************************************************)
(* C24: in the aggregator that is returned, when the root is a Catalog     *)
(* every catalog entry has given exactly one AggregatedComponent or one    *)
(* component_errors entry, so len(components) + len(component_errors) =    *)
(* len(catalog.components); for every AggregatedComponent len(releases) +  *)
(* len(release_errors) = len(release_attestations); and root_error is set  *)
(* if and only if catalog_predicate is absent.                             *)
(***************************************************************************)
C24_Accounting ==
    Done =>
        LET data == Unwrap(returned[1])
        IN  /\ data = aggregated_data
            /\ data.root_error # None <=> data.catalog_predicate = None
            /\ data.catalog_predicate # None =>
                 Len(data.components) + Len(data.component_errors)
                   = Len(data.catalog_predicate[1].links)
            /\ data.catalog_predicate = None =>
                 data.components = <<>> /\ data.component_errors = <<>>
            /\ \A k \in DOMAIN data.components :
                 /\ data.components[k].component_predicate # None
                 /\ Len(data.components[k].releases)
                      + Len(data.components[k].release_errors)
                      = Len(data.components[k].component_predicate[1].links)

\* two catalog entries, one of them an error; the component has two release
\* links, one aggregated and one an error
C24_Witness ==
    /\ Done
    /\ max_depth = MAX_DEPTH
    /\ HasCatalog
    /\ aggregated_data.root_error = None
    /\ Len(Catalog.links) = 2
    /\ Len(Components) = 1
    /\ Len(ComponentErrors) = 1
    /\ Len(Components[1].component_predicate[1].links) = 2
    /\ Len(Components[1].releases) = 1
    /\ Len(Components[1].release_errors) = 1

(***************************************************************************)
(* C25: a URI stays in the visited set even when its fetch, verification   *)
(* or parsing failed: a later link to the same URI (a duplicate catalog    *)
(* entry, a release link shared by two components, a link carrying another *)
(* expectedSignerIdentity) is not retried and is reported as "Cycle        *)
(* detected: URI '<uri>' already visited" at its own level; the visited    *)
(* set only ever grows.                                                    *)
(***************************************************************************)
RequestedStaysVisited == Range(requests) \subseteq visited_uris

VisitedOnlyGrows == visited_uris \subseteq visited_uris'

RevisitReported ==
    /\ (/\ pc = "components"
        /\ HasCatalog
        /\ ci <= Len(Catalog.links)
        /\ Catalog.links[ci].uri \in visited_uris) =>
         LET uri == Catalog.links[ci].uri
         IN  /\ aggregated_data' =
                  [aggregated_data EXCEPT !.component_errors =
                      Append(@, [uri |-> uri,
                                 message |-> <<"Cycle detected: URI '", uri,
                                               "' already visited">>])]
             /\ requests' = requests
             /\ visited_uris' = visited_uris
             /\ call' = call
             /\ agg_comp_data' = agg_comp_data
             /\ ci' = ci + 1
             /\ pc' = "components"
    /\ (/\ pc = "releases"
        /\ agg_comp_data # None
        /\ ri <= Len(Component.links)
        /\ Component.links[ri].uri \in visited_uris) =>
         LET uri == Component.links[ri].uri
         IN  /\ agg_comp_data' =
                  Some([agg_comp_data[1] EXCEPT !.release_errors =
                           Append(@, [uri |-> uri,
                                      message |-> <<"Cycle detected: URI '", uri,
                                                    "' already visited">>])])
             /\ requests' = requests
             /\ visited_uris' = visited_uris
             /\ call' = call
             /\ aggregated_data' = aggregated_data
             /\ ri' = ri + 1
             /\ pc' = "releases"

C25_FailedUriStaysVisited ==
    []RequestedStaysVisited /\ [][VisitedOnlyGrows /\ RevisitReported]_vars

\* the catalog names v1 twice, for alice and for bob; the manifest of v1
\* failed verification for alice, and the entry for bob is a cycle error
C25_Witness ==
    /\ Done
    /\ HasCatalog
    /\ Catalog.links = <<LinkTo("v1", "alice@x"), LinkTo("v1", "bob@x")>>
    /\ Components = <<>>
    /\ Len(ComponentErrors) = 2
    /\ ComponentErrors[1] =
         ErrorEntry("v1", <<"Signature/identity verification failed for URI '", "v1",
                            "' with expected identity '", "alice@x", "'">>)
    /\ ComponentErrors[2] = ErrorEntry("v1", CycleMessage("v1"))
    /\ requests = <<"v0", "v1">>

(***************************************************************************)
(* traversal.rs: process_attestation_uri from line 197 on, with            *)
(* verify_signature_with_pae (attestation.rs:14-66) taken one statement at *)
(* a time.  The call is kept in vout: at is the statement to run next,     *)
(* trace the statements run so far, result the value returned, and the     *)
(* locals payload_bytes, pae_data, cert_der_bytes, statement.              *)
(***************************************************************************)
PipelineBundles ==
    VerifyBundles
    \cup {SignedBundle(st, "alice@x") :
             st \in {StatementBytes(RELEASE_V1, <<"!">>),
                     StatementBytes(CATALOG_V1, TokensOf(<<Link("u1")>>)),
                     JunkStatement}}

PipelineInputs ==
    [bundle_json_text : PipelineBundles, expected_identity : {"alice@x", "bob@x"},
     uri : {"u1"}]

PipelineInit ==
    /\ TravInit
    /\ max_depth = MAX_DEPTH
    /\ vin \in {Some(i) : i \in PipelineInputs}
    /\ vout = None

PipeFrame ==
    UNCHANGED <<root_uri, root_identity, max_depth, visited_uris, aggregated_data,
                agg_comp_data, ci, ri, call, pc, requests, returned, last_result, vin>>

\* traversal.rs:198-203: the context put on a failure of the verification
VerificationContext(r) ==
    WithContext(r, <<"Signature/identity verification failed for URI '", vin[1].uri,
                     "' with expected identity '", vin[1].expected_identity, "'">>)

\* the statement `name` has run and failed with `err`, which `?` returns
PipeFails(name, err) ==
    vout' = Some([vout[1] EXCEPT !.trace = Append(@, name), !.at = "returned",
                                 !.result = Some(err)])

PipeAt(name) == vout # None /\ vout[1].at = name

\* traversal.rs:197: the call of verify_signature_with_pae
PipeStart ==
    /\ vin # None
    /\ vout = None
    /\ vout' = Some([at |-> "parse_bundle", trace |-> <<>>, result |-> None,
                     payload_bytes |-> None, pae_data |-> None,
                     cert_der_bytes |-> None, statement |-> None])
    /\ PipeFrame

\* attestation.rs:16-17
ParseBundle ==
    /\ PipeAt("parse_bundle")
    /\ IF ~vin[1].bundle_json_text.json_ok
       THEN PipeFails("parse_bundle",
                VerificationContext(WithContext(Err(<<"serde_json error">>),
                                                <<"Failed to parse bundle JSON">>)))
       ELSE vout' = Some([vout[1] EXCEPT !.trace = Append(@, "parse_bundle"),
                                         !.at = "signatures0"])
    /\ PipeFrame

\* attestation.rs:24-29
FirstSignature ==
    /\ PipeAt("signatures0")
    /\ IF Len(vin[1].bundle_json_text.signatures) = 0
       THEN PipeFails("signatures0",
                VerificationContext(Err(<<"Bundle contains no signatures in dsseEnvelope">>)))
       ELSE vout' = Some([vout[1] EXCEPT !.trace = Append(@, "signatures0"),
                                         !.at = "decode_payload"])
    /\ PipeFrame

\* attestation.rs:32-34
DecodePayload ==
    /\ PipeAt("decode_payload")
    /\ LET payload == WithContext(B64Decode(vin[1].bundle_json_text.payload),
                                  <<"Failed to decode dsseEnvelope.payload">>)
       IN  IF ~payload.ok
           THEN PipeFails("decode_payload", VerificationContext(payload))
           ELSE vout' = Some([vout[1] EXCEPT !.trace = Append(@, "decode_payload"),
                                             !.at = "construct_pae",
                                             !.payload_bytes = Some(Unwrap(payload))])
    /\ PipeFrame

\* attestation.rs:39
ConstructPaeStep ==
    /\ PipeAt("construct_pae")
    /\ vout' = Some([vout[1] EXCEPT
                        !.trace = Append(@, "construct_pae"),
                        !.at = "decode_certificate",
                        !.pae_data = Some(construct_pae(
                                              vin[1].bundle_json_text.payload_type,
                                              vout[1].payload_bytes[1]))])
    /\ PipeFrame

\* attestation.rs:43-50
DecodeCertificate ==
    /\ PipeAt("decode_certificate")
    /\ LET cert == WithContext(B64Decode(vin[1].bundle_json_text.raw_bytes),
                               <<"Failed to decode certificate rawBytes">>)
       IN  IF ~cert.ok
           THEN PipeFails("decode_certificate", VerificationContext(cert))
           ELSE vout' = Some([vout[1] EXCEPT !.trace = Append(@, "decode_certificate"),
                                             !.at = "verify_blob",
                                             !.cert_der_bytes = Some(Unwrap(cert))])
    /\ PipeFrame

\* as if line 55 had no `?`: the outcome of verify_blob is dropped
VerifyBlobStepIgnored ==
    /\ PipeAt("verify_blob")
    /\ vout' = Some([vout[1] EXCEPT !.trace = Append(@, "verify_blob"),
                                    !.at = "identity"])
    /\ PipeFrame

\* attestation.rs:54-55
VerifyBlobStep ==
    /\ PipeAt("verify_blob")
    /\ LET verified == WithContext(
               verify_blob(PemEncode(vout[1].cert_der_bytes[1]),
                           vin[1].bundle_json_text.signatures[1],
                           vout[1].pae_data[1]),
               <<"Signature verification failed using verify_blob with PAE data">>)
       IN  IF ~verified.ok
           THEN PipeFails("verify_blob", VerificationContext(verified))
           ELSE vout' = Some([vout[1] EXCEPT !.trace = Append(@, "verify_blob"),
                                             !.at = "identity"])
    /\ PipeFrame

\* attestation.rs:60-61
IdentityStep ==
    /\ PipeAt("identity")
    /\ LET identity == WithContext(
               inspect_certificate_identity_from_der(vout[1].cert_der_bytes[1],
                                                     vin[1].expected_identity),
               <<"Certificate identity verification failed">>)
       IN  IF ~identity.ok
           THEN PipeFails("identity", VerificationContext(identity))
           ELSE vout' = Some([vout[1] EXCEPT !.trace = Append(@, "identity"),
                                             !.at = "parse_statement"])
    /\ PipeFrame

\* attestation.rs:65 and traversal.rs:205-206
ParseStatementStep ==
    /\ PipeAt("parse_statement")
    /\ LET statement == WithContext(
               InTotoStatement_from_slice(vout[1].payload_bytes[1]),
               <<"Failed to parse InTotoStatement JSON from URI '", vin[1].uri, "'">>)
       IN  IF ~statement.ok
           THEN PipeFails("parse_statement", statement)
           ELSE vout' = Some([vout[1] EXCEPT !.trace = Append(@, "parse_statement"),
                                             !.at = "parse_predicate",
                                             !.statement = Some(Unwrap(statement))])
    /\ PipeFrame

\* traversal.rs:208-215
ParsePredicateStep ==
    /\ PipeAt("parse_predicate")
    /\ vout' = Some([vout[1] EXCEPT
                        !.trace = Append(@, "parse_predicate"),
                        !.at = "returned",
                        !.result = Some(WithContext(
                            parse_predicate(vout[1].statement[1]),
                            <<"Failed to parse ChainsightsPredicate from statement at URI '",
                              vin[1].uri, "'">>))])
    /\ PipeFrame

PipelineNext ==
    \/ PipeStart
    \/ ParseBundle
    \/ FirstSignature
    \/ DecodePayload
    \/ ConstructPaeStep
    \/ DecodeCertificate
    \/ VerifyBlobStep
    \/ IdentityStep
    \/ ParseStatementStep
    \/ ParsePredicateStep

SpecPipeline == PipelineInit /\ [][PipelineNext]_vars

StepOrder ==
    <<"parse_bundle", "signatures0", "decode_payload", "construct_pae",
      "decode_certificate", "verify_blob", "identity", "parse_statement",
      "parse_predicate">>

\* whether the k-th step of StepOrder succeeds on the bundle, given that the
\* steps before it did
StepSucceeds(k, b, expected) ==
    CASE k = 1 -> b.json_ok
      [] k = 2 -> Len(b.signatures) >= 1
      [] k = 3 -> b.payload.b64
      [] k = 4 -> TRUE
      [] k = 5 -> b.raw_bytes.b64
      [] k = 6 -> /\ b.raw_bytes.data.x509_ok
                  /\ b.signatures[1].b64
                  /\ SignatureVerifies(b)
      [] k = 7 -> IdentityMatches(b.raw_bytes.data, expected)
      [] k = 8 -> Len(b.payload.data) >= 2 /\ b.payload.data[1] = "stmt"
      [] OTHER -> parse_predicate([predicate_type |-> b.payload.data[2],
                                   predicate |-> SubSeq(b.payload.data, 3,
                                                        Len(b.payload.data))]).ok

\* the steps run on the bundle: all of them up to the first that fails
RECURSIVE StepsRun(_, _, _)
StepsRun(k, b, expected) ==
    IF k > Len(StepOrder) THEN <<>>
    ELSE IF ~StepSucceeds(k, b, expected) THEN <<StepOrder[k]>>
    ELSE <<StepOrder[k]>> \o StepsRun(k + 1, b, expected)

InTrace(name) == \E i \in DOMAIN vout[1].trace : vout[1].trace[i] = name

(***************************************************************************)
(* C26: the verification pipeline runs its steps in a fixed order and      *)
(* stops at the first failure: bundle JSON parse, presence of              *)
(* signatures[0], payload base64 decode, PAE construction, certificate     *)
(* base64 decode, signature verification, identity check; the identity     *)
(* check is never evaluated for a bundle whose signature is invalid, a     *)
(* bundle with an invalid signature and a non-matching identity fails at   *)
(* the signature step, and process_attestation_uri parses the statement    *)
(* and the predicate only after verification has succeeded.                *)
(***************************************************************************)
C26_FixedOrderFirstFailure ==
    vout # None =>
      LET b == vin[1].bundle_json_text
          expected == vin[1].expected_identity
          p == vout[1]
          run == StepsRun(1, b, expected)
      IN  /\ Len(p.trace) <= Len(run)
          /\ p.trace = SubSeq(run, 1, Len(p.trace))
          /\ p.result # None <=> p.trace = run
          /\ p.result # None =>
               (p.result[1].ok <=> Len(run) = Len(StepOrder)
                                     /\ StepSucceeds(Len(StepOrder), b, expected))
          /\ InTrace("identity") =>
               \A k \in 1..6 : StepSucceeds(k, b, expected)
          /\ (/\ p.result # None
              /\ \A k \in 1..5 : StepSucceeds(k, b, expected)
              /\ ~StepSucceeds(6, b, expected)) =>
               /\ ~InTrace("identity")
               /\ ~p.result[1].ok
               /\ p.result[1].chain[2] =
                    <<"Signature verification failed using verify_blob with PAE data">>
          /\ (InTrace("parse_statement") \/ InTrace("parse_predicate")) =>
               \A k \in 1..7 : StepSucceeds(k, b, expected)
          /\ p.result # None =>
               p.result[1] =
                 LET verified == VerificationContext(
                                     verify_signature_with_pae(b, expected))
                 IN  IF ~verified.ok THEN verified
                     ELSE ParseVerified(vin[1].uri, Unwrap(verified))

\* a bundle whose signature is invalid and whose certificate names bob,
\* checked for alice
C26_Witness ==
    /\ vout # None
    /\ vout[1].result # None
    /\ vin[1].expected_identity = "alice@x"
    /\ \A k \in 1..5 : StepSucceeds(k, vin[1].bundle_json_text, "alice@x")
    /\ vin[1].bundle_json_text.raw_bytes.data.x509_ok
    /\ vin[1].bundle_json_text.signatures[1].b64
    /\ ~SignatureVerifies(vin[1].bundle_json_text)
    /\ ~IdentityMatches(vin[1].bundle_json_text.raw_bytes.data, "alice@x")
    /\ vout[1].trace = <<"parse_bundle", "signatures0", "decode_payload",
                         "construct_pae", "decode_certificate", "verify_blob">>
    /\ ~vout[1].result[1].ok

====
